---- MODULE Spec2Model ----
(***************************************************************************)
(* Model of the change-detection pipeline of src/watcher/detector.rs:      *)
(* filesystem events -> rapid/quality detection -> diff against the cached *)
(* snapshot -> operation with parent link -> append to the log -> publish. *)
(*                                                                         *)
(* A string is the sequence of its UTF-8 bytes (Rust's String); byte       *)
(* offsets are 0-based as in the source.  A path is a sequence of          *)
(* components, a component a sequence of one-character strings.            *)
(***************************************************************************)
EXTENDS Integers, Sequences, FiniteSets, TLC

\* ------------------------------------------------------------------ bounds
MaxChars == 2        \* longest enumerated file content, in characters
MaxOps == 3          \* operations built in one behaviour (fresh ids 1..MaxOps)
MaxSeq == 2          \* events explored from the start of each rapid window
MaxWindows == 2      \* rapid windows a behaviour moves on to
MaxChurnOps == 4     \* operations built in one behaviour of SpecEvict
MaxQueued == 3       \* events waiting on the channel in SpecQueue
MaxSent == 4         \* events sent in one behaviour of SpecQueue
MaxClassOps == 1     \* operations built in one behaviour of SpecClass
MaxClientSends == 3  \* operations the clients send in one behaviour of SpecServer
MaxTools == 3        \* tools registered with the orchestrator
MaxAttempts == 3     \* RetryPolicy.max_attempts goes up to this
MaxPublishes == 3    \* operations published locally while the peer bridge runs
MaxMessages == 3     \* messages the remote peer sends over the bridge
MaxVersion == 3      \* LSP document versions are 1..MaxVersion
MaxChanges == 4      \* LSP change events in one behaviour
SEEN_LIMIT == 1      \* 10_000 in server/api.rs; scaled

\* ------------------------------------------------------- program constants
RAPID_WINDOW == 100      \* detector.rs:111  sequence - cached_seq < 100
SMALL_EDIT_MAX == 10     \* detector.rs:241  len_diff <= 10
\* detector.rs:618 sets 1_000_000; the model scales the limit down so that an
\* enumerated content can exceed it.
MAX_TRACKED_FILE_BYTES == 12

\* ------------------------------------------------------------ byte strings
Min2(a, b) == IF a <= b THEN a ELSE b

MinOf(S) == CHOOSE x \in S : \A y \in S : x <= y

\* a UTF-8 continuation byte (10xxxxxx)
IsCont(b) == b >= 128 /\ b < 192

\* str::is_ascii
is_ascii(s) == \A i \in 1..Len(s) : s[i] < 128

\* str::is_char_boundary(i), i a 0-based byte offset
is_char_boundary(s, i) ==
    \/ i = 0
    \/ i = Len(s)
    \/ i > 0 /\ i < Len(s) /\ ~IsCont(s[i + 1])

\* s.chars().count()
chars_count(s) == Cardinality({i \in 1..Len(s) : ~IsCont(s[i])})

\* s.char_indices().map(|(i, _)| i): the byte offset of every character
char_indices(s) ==
    LET IsStart(off) == ~IsCont(s[off + 1])
    IN  SelectSeq([i \in 1..Len(s) |-> i - 1], IsStart)

\* &s[from..to] (the caller checks the boundaries: Rust panics otherwise)
Slice(s, from, to) == SubSeq(s, from + 1, to)

\* s.starts_with(p)
starts_with(s, p) == Len(p) <= Len(s) /\ SubSeq(s, 1, Len(p)) = p

\* s.ends_with(p)
ends_with(s, p) == Len(p) <= Len(s) /\ SubSeq(s, Len(s) - Len(p) + 1, Len(s)) = p

\* s.contains(p)
contains(s, p) == \E i \in 0..(Len(s) - Len(p)) : SubSeq(s, i + 1, i + Len(p)) = p

\* old.iter().zip(new.iter()).take_while(|(a, b)| a == b).count()
common_prefix(old, new) ==
    LET m == Min2(Len(old), Len(new))
        d == {i \in 1..m : old[i] # new[i]}
    IN  IF d = {} THEN m ELSE MinOf(d) - 1

\* the same, over the reversed slices
common_suffix(old, new) ==
    LET m == Min2(Len(old), Len(new))
        d == {i \in 1..m : old[Len(old) + 1 - i] # new[Len(new) + 1 - i]}
    IN  IF d = {} THEN m ELSE MinOf(d) - 1

\* the characters of a string, each as its own byte sequence
Chars(s) ==
    LET starts == char_indices(s)
        n == Len(starts)
    IN  [k \in 1..n |->
            Slice(s, starts[k], IF k = n THEN Len(s) ELSE starts[k + 1])]

RECURSIVE Flatten(_)
Flatten(cs) == IF cs = <<>> THEN <<>> ELSE Head(cs) \o Flatten(Tail(cs))

\* ---------------------------------------------------------------- snapshots
NL == 10

\* character offsets one past each newline of s, shifted by base
newline_starts(s, base, ascii) ==
    LET IsNl(i) == s[i] = NL
        at == SelectSeq([i \in 1..Len(s) |-> i], IsNl)
    IN  [k \in 1..Len(at) |->
            base + (IF ascii THEN at[k] ELSE chars_count(SubSeq(s, 1, at[k])))]

build_snapshot_minimal(content) ==
    [content |-> content,
     byte_len |-> Len(content),
     char_len |-> chars_count(content),
     char_to_byte |-> <<>>,
     line_starts |-> <<>>]

build_snapshot_fast(content) ==
    [content |-> content,
     byte_len |-> Len(content),
     char_len |-> IF is_ascii(content) THEN Len(content) ELSE chars_count(content),
     char_to_byte |-> IF is_ascii(content) THEN <<>>
                      ELSE Append(char_indices(content), Len(content)),
     line_starts |-> <<0>> \o newline_starts(content, 0, is_ascii(content))]

\* extend_snapshot leaving the snapshot as it was
extend_snapshot_skipped(snapshot, appended) == snapshot

extend_snapshot(snapshot, appended) ==
    IF appended = <<>> THEN snapshot
    ELSE
    LET base_byte == Len(snapshot.content)
        ascii == is_ascii(appended)
        appended_char_count == IF ascii THEN Len(appended) ELSE chars_count(appended)
        c2b == IF snapshot.char_to_byte = <<>> THEN <<>>
               ELSE LET popped == SubSeq(snapshot.char_to_byte, 1,
                                         Len(snapshot.char_to_byte) - 1)
                        ext == IF ascii
                               THEN [i \in 1..Len(appended) |-> base_byte + i - 1]
                               ELSE LET ci == char_indices(appended)
                                    IN  [k \in 1..Len(ci) |-> base_byte + ci[k]]
                    IN  Append(popped \o ext, base_byte + Len(appended))
    IN  [content |-> snapshot.content \o appended,
         byte_len |-> base_byte + Len(appended),
         char_len |-> snapshot.char_len + appended_char_count,
         char_to_byte |-> c2b,
         line_starts |-> snapshot.line_starts
                           \o newline_starts(appended, snapshot.char_len, ascii)]

\* Vec::binary_search / partition_point over the ascending line_starts
line_col_fast(snapshot, char_offset) ==
    LET ls == snapshot.line_starts
    IN  IF ls = <<>> THEN <<1, char_offset + 1>>
        ELSE IF \E i \in 1..Len(ls) : ls[i] = char_offset
        THEN LET idx == (CHOOSE i \in 1..Len(ls) : ls[i] = char_offset) - 1
             IN  <<idx + 2, 1>>
        ELSE LET idx == Cardinality({i \in 1..Len(ls) : ls[i] < char_offset})
             IN  <<idx + 1,
                   IF idx = 0 THEN char_offset + 1 ELSE char_offset - ls[idx]>>

line_col_from_snapshot(snapshot, char_idx) ==
    LET starts == snapshot.line_starts
        partition == Cardinality({i \in 1..Len(starts) : starts[i] <= char_idx})
        line_idx == IF partition = 0 THEN 0 ELSE partition - 1
        line_start == IF line_idx < Len(starts) THEN starts[line_idx + 1] ELSE 0
    IN  <<line_idx + 1,
          (IF char_idx >= line_start THEN char_idx - line_start ELSE 0) + 1>>

ensure_char_mapping(snapshot) ==
    IF snapshot.char_to_byte # <<>> THEN snapshot
    ELSE [snapshot EXCEPT
            !.char_to_byte = [i \in 1..(Len(snapshot.content) + 1) |-> i - 1]]

\* ---------------------------------------------------------------- operations
\* Operation::new: one record shape for all six variants; id and parent_ops are
\* filled in by register_operation.
NewOp(kind, path) ==
    [kind |-> kind, file_path |-> path, offset |-> 0, line |-> 0, column |-> 0,
     lamport |-> 0, content |-> <<>>, length |-> 0, old_content |-> <<>>,
     new_content |-> <<>>, old_path |-> <<>>, new_path |-> <<>>,
     id |-> 0, parent_ops |-> {}]

\* Position::new(line, col, offset, actor, lamport) placed into an operation
WithPosition(op, lc, offset, lamport) ==
    [op EXCEPT !.line = lc[1], !.column = lc[2], !.offset = offset,
               !.lamport = lamport]

HasPosition(op) == op.kind \in {"Insert", "Delete", "Replace"}

\* An Option<T> is the sequence <<>> (None) or <<x>> (Some(x)); a Vec is a sequence.
\* What one detection call did: the operations of its DetectionReport (not yet
\* registered), the entry it left in PREV_STATE for the path (an Option), whether
\* GLOBAL_CLOCK.tick() ran, and whether the call panicked (a slice off a
\* character boundary).
Detection(ops, snap, ticked, panicked) ==
    [ops |-> ops, snap |-> snap, ticked |-> ticked, panicked |-> panicked]

SliceOk(s, from, to) ==
    from <= to /\ to <= Len(s) /\ is_char_boundary(s, from) /\ is_char_boundary(s, to)

\* Vec::iter().position(|&b| b >= x).unwrap_or(dflt), 0-based
position_ge(v, x, dflt) ==
    LET hit == {i \in 1..Len(v) : v[i] >= x}
    IN  IF hit = {} THEN dflt ELSE MinOf(hit) - 1

\* compute_change_range_fast, the suffix scan over what the prefix leaves
common_suffix_after(old_bytes, new_bytes, common_prefix_bytes) ==
    IF Len(old_bytes) - common_prefix_bytes > 0
       /\ Len(new_bytes) - common_prefix_bytes > 0
    THEN Min2(common_suffix(Slice(old_bytes, common_prefix_bytes, Len(old_bytes)),
                            Slice(new_bytes, common_prefix_bytes, Len(new_bytes))),
              Min2(Len(old_bytes) - common_prefix_bytes,
                   Len(new_bytes) - common_prefix_bytes))
    ELSE 0

\* compute_change_range_fast, the conversion of the byte positions to
\* character positions and the result
change_range_chars(old_snapshot, new_snapshot, common_prefix_bytes, common_suffix_bytes) ==
    LET old_is_ascii == old_snapshot.char_to_byte = <<>>
        new_is_ascii == new_snapshot.char_to_byte = <<>>
        prefix_chars ==
            IF old_is_ascii THEN common_prefix_bytes
            ELSE position_ge(old_snapshot.char_to_byte, common_prefix_bytes,
                             old_snapshot.char_len)
        old_suffix_chars ==
            IF old_is_ascii THEN Len(old_snapshot.content) - common_suffix_bytes
            ELSE position_ge(old_snapshot.char_to_byte,
                             Len(old_snapshot.content) - common_suffix_bytes,
                             old_snapshot.char_len)
        new_suffix_chars ==
            IF new_is_ascii THEN Len(new_snapshot.content) - common_suffix_bytes
            ELSE position_ge(new_snapshot.char_to_byte,
                             Len(new_snapshot.content) - common_suffix_bytes,
                             new_snapshot.char_len)
    IN  IF old_snapshot.char_len = 0 /\ new_snapshot.char_len = 0 THEN <<>>
        ELSE IF prefix_chars = old_snapshot.char_len
                /\ prefix_chars = new_snapshot.char_len THEN <<>>
        ELSE <<prefix_chars, old_suffix_chars, prefix_chars, new_suffix_chars>>

change_range_prefix(old_snapshot, new_snapshot, common_prefix_bytes) ==
    change_range_chars(old_snapshot, new_snapshot, common_prefix_bytes,
        common_suffix_after(old_snapshot.content, new_snapshot.content,
                            common_prefix_bytes))

\* files of at most 8192 bytes: the linear scan of the prefix.  None is <<>>,
\* Some((old_start, old_end, new_start, new_end)) the 4-tuple.
compute_change_range_fast(old_snapshot, new_snapshot) ==
    change_range_prefix(old_snapshot, new_snapshot,
                        common_prefix(old_snapshot.content, new_snapshot.content))

\* char_to_byte[i] when i is in range, else content.len()
byte_of(snap, i) ==
    IF i < Len(snap.char_to_byte) THEN snap.char_to_byte[i + 1] ELSE Len(snap.content)

\* fast_diff_ops, the match on the two segments: <<ops, ticked, panicked>>
diff_segments(path, lamport, old_start, old_end, new_start, new_end, old_segment, new_segment, lc) ==
    IF old_segment = <<>> /\ new_segment # <<>>
    THEN <<<<[WithPosition(NewOp("Insert", path), lc, old_start, lamport)
                EXCEPT !.content = new_segment,
                       !.length = new_end - new_start]>>, TRUE, FALSE>>
    ELSE IF old_segment # <<>> /\ new_segment = <<>>
    THEN <<<<[WithPosition(NewOp("Delete", path), lc, old_start, lamport)
                EXCEPT !.length = old_end - old_start]>>, TRUE, FALSE>>
    ELSE IF old_segment # <<>> /\ new_segment # <<>>
    THEN <<<<[WithPosition(NewOp("Replace", path), lc, old_start, lamport)
                EXCEPT !.old_content = old_segment,
                       !.new_content = new_segment]>>, TRUE, FALSE>>
    ELSE <<<<>>, TRUE, FALSE>>

\* fast_diff_ops, from the byte range of the change on: the two slices (off a
\* character boundary they panic), the position, the tick
diff_bytes(path, old_snap, new_snap, lamport, old_start, old_end, new_start, new_end, old_start_byte, old_end_byte, new_start_byte, new_end_byte) ==
    IF old_start_byte = old_end_byte /\ new_start_byte = new_end_byte
    THEN <<<<>>, FALSE, FALSE>>
    ELSE IF ~SliceOk(old_snap.content, old_start_byte, old_end_byte)
            \/ ~SliceOk(new_snap.content, new_start_byte, new_end_byte)
    THEN <<<<>>, FALSE, TRUE>>
    ELSE diff_segments(path, lamport, old_start, old_end, new_start, new_end,
                       Slice(old_snap.content, old_start_byte, old_end_byte),
                       Slice(new_snap.content, new_start_byte, new_end_byte),
                       line_col_from_snapshot(old_snap, old_start))

\* fast_diff_ops, from the change range on
diff_change(path, old_snap, new_snap, lamport, change) ==
    IF change = <<>> THEN <<<<>>, FALSE, FALSE>>
    ELSE diff_bytes(path, old_snap, new_snap, lamport,
                    change[1], change[2], change[3], change[4],
                    byte_of(old_snap, change[1]), byte_of(old_snap, change[2]),
                    byte_of(new_snap, change[3]), byte_of(new_snap, change[4]))

diff_mapped(path, old_snap, new_snap, lamport) ==
    diff_change(path, old_snap, new_snap, lamport,
                compute_change_range_fast(old_snap, new_snap))

\* Returns <<ops, ticked, panicked>>.
fast_diff_ops(path, old_snapshot, new_snapshot, lamport) ==
    IF old_snapshot.byte_len = new_snapshot.byte_len
       /\ old_snapshot.content = new_snapshot.content
    THEN <<<<>>, FALSE, FALSE>>
    ELSE diff_mapped(path, ensure_char_mapping(old_snapshot),
                     ensure_char_mapping(new_snapshot), lamport)

\* ---------------------------------------------------------------- detection
\* In the operators below `prev` is PREV_STATE.get(path) and `read` is the result
\* of read_file_fast(path): <<>> for Err (missing file, not UTF-8), <<text>> for Ok.
\* `lamport` is the value GLOBAL_CLOCK.tick() returns if the call ticks.

\* a first sighting reported as an Insert of the whole content
FileCreateOp_as_insert(path, content) == [NewOp("Insert", path) EXCEPT !.content = content]

FileCreateOp(path, content) == [NewOp("FileCreate", path) EXCEPT !.content = content]

\* handle_append_fast, the line and column of the end of prev
append_line_col(ls, char_offset) ==
    IF ls = <<>> THEN <<1, char_offset + 1>>
    ELSE <<Len(ls) + 1, char_offset - ls[Len(ls)]>>

\* handle_append_fast with the byte length of prev as the offset of the Insert
handle_append_fast_byte_offset(path, prev, appended, lamport) ==
    Detection(
        <<[WithPosition(NewOp("Insert", path),
                        append_line_col(prev.line_starts, prev.char_len),
                        prev.byte_len, lamport)
             EXCEPT !.content = appended, !.length = chars_count(appended)]>>,
        <<extend_snapshot(prev, appended)>>, TRUE, FALSE)

handle_append_fast(path, prev, appended, lamport) ==
    Detection(
        <<[WithPosition(NewOp("Insert", path),
                        append_line_col(prev.line_starts, prev.char_len),
                        prev.char_len, lamport)
             EXCEPT !.content = appended, !.length = chars_count(appended)]>>,
        <<extend_snapshot(prev, appended)>>, TRUE, FALSE)

\* detect_single_edit_fast once the common byte prefix is known
single_edit_at(path, prev, new_content, lamport, prefix_len, grow, deleted_len) ==
    IF Len(new_content) > Len(prev.content)
    THEN IF ~SliceOk(new_content, prefix_len, prefix_len + grow)
            \/ ~SliceOk(prev.content, 0, prefix_len)
         THEN Detection(<<>>, <<prev>>, FALSE, TRUE)
         ELSE Detection(
                <<[WithPosition(NewOp("Insert", path),
                       line_col_fast(prev, chars_count(Slice(prev.content, 0, prefix_len))),
                       chars_count(Slice(prev.content, 0, prefix_len)), lamport)
                     EXCEPT !.content = Slice(new_content, prefix_len, prefix_len + grow),
                            !.length = chars_count(
                                Slice(new_content, prefix_len, prefix_len + grow))]>>,
                <<build_snapshot_minimal(new_content)>>, TRUE, FALSE)
    ELSE IF ~SliceOk(prev.content, 0, prefix_len)
         THEN Detection(<<>>, <<prev>>, FALSE, TRUE)
         ELSE IF ~SliceOk(prev.content, prefix_len, prefix_len + deleted_len)
         THEN Detection(<<>>, <<prev>>, TRUE, TRUE)
         ELSE Detection(
                <<[WithPosition(NewOp("Delete", path),
                       line_col_fast(prev, chars_count(Slice(prev.content, 0, prefix_len))),
                       chars_count(Slice(prev.content, 0, prefix_len)), lamport)
                     EXCEPT !.length = chars_count(
                                Slice(prev.content, prefix_len, prefix_len + deleted_len))]>>,
                <<build_snapshot_minimal(new_content)>>, TRUE, FALSE)

detect_single_edit_fast(path, prev, new_content, lamport) ==
    single_edit_at(path, prev, new_content, lamport,
                   common_prefix(prev.content, new_content),
                   Len(new_content) - Len(prev.content),
                   Len(prev.content) - Len(new_content))

\* detect_operations_with_content, the general diff against the new snapshot
with_content_diffed(prev, new_snapshot, d) ==
    IF d[3] THEN Detection(<<>>, prev, d[2], TRUE)
    ELSE Detection(d[1], <<new_snapshot>>, d[2], FALSE)

with_content_general(path, prev, new_snapshot, lamport) ==
    IF new_snapshot.byte_len > MAX_TRACKED_FILE_BYTES
    THEN Detection(<<>>, <<>>, FALSE, FALSE)
    ELSE with_content_diffed(prev, new_snapshot,
                             fast_diff_ops(path, prev[1], new_snapshot, lamport))

\* detect_operations_with_content, the append branch
with_content_append(path, old, appended, lamport) ==
    Detection(
        <<[WithPosition(NewOp("Insert", path),
                        line_col_from_snapshot(old, old.char_len), old.char_len, lamport)
             EXCEPT !.content = appended, !.length = chars_count(appended)]>>,
        <<extend_snapshot(old, appended)>>, TRUE, FALSE)

\* detect_operations_with_content once the content is in hand
with_content_read(path, prev, new_content, lamport) ==
    IF prev = <<>>
    THEN IF Len(new_content) > MAX_TRACKED_FILE_BYTES
         THEN Detection(<<>>, prev, FALSE, FALSE)
         ELSE Detection(<<FileCreateOp(path, new_content)>>,
                        <<build_snapshot_fast(new_content)>>, FALSE, FALSE)
    ELSE IF Len(new_content) = Len(prev[1].content) /\ new_content = prev[1].content
    THEN Detection(<<>>, prev, FALSE, FALSE)
    ELSE IF Len(new_content) > Len(prev[1].content)
            /\ starts_with(new_content, prev[1].content)
    THEN with_content_append(path, prev[1],
             Slice(new_content, Len(prev[1].content), Len(new_content)), lamport)
    ELSE with_content_general(path, prev, build_snapshot_fast(new_content), lamport)

\* detect_operations_with_content dropping the snapshot when the read fails
detect_operations_with_content_forgetful(path, prev, cached_content, read, lamport) ==
    IF cached_content # <<>> THEN with_content_read(path, prev, cached_content[1], lamport)
    ELSE IF read = <<>> THEN Detection(<<>>, <<>>, FALSE, FALSE)
    ELSE with_content_read(path, prev, read[1], lamport)

\* cached_content is the override or the entry taken from TEMP_CONTENT_CACHE
detect_operations_with_content(path, prev, cached_content, read, lamport) ==
    IF cached_content # <<>> THEN with_content_read(path, prev, cached_content[1], lamport)
    ELSE IF read = <<>> THEN Detection(<<>>, prev, FALSE, FALSE)
    ELSE with_content_read(path, prev, read[1], lamport)

\* |new_len - old_len|
len_diff(new_content, old_content) ==
    IF Len(new_content) >= Len(old_content)
    THEN Len(new_content) - Len(old_content)
    ELSE Len(old_content) - Len(new_content)

\* ultra_fast_read without the comparison of the new content with the snapshot
ultra_fast_read_no_identity(path, prev, new_content, lamport) ==
    IF prev = <<>>
    THEN IF Len(new_content) > MAX_TRACKED_FILE_BYTES
         THEN Detection(<<>>, prev, FALSE, FALSE)
         ELSE Detection(<<FileCreateOp(path, new_content)>>,
                        <<build_snapshot_minimal(new_content)>>, FALSE, FALSE)
    ELSE IF Len(new_content) > Len(prev[1].content)
            /\ starts_with(new_content, prev[1].content)
    THEN handle_append_fast(path, prev[1],
             Slice(new_content, Len(prev[1].content), Len(new_content)), lamport)
    ELSE IF len_diff(new_content, prev[1].content) <= SMALL_EDIT_MAX
    THEN detect_single_edit_fast(path, prev[1], new_content, lamport)
    ELSE with_content_read(path, prev, new_content, lamport)

\* detect_operations_ultra_fast once the file is read
ultra_fast_read(path, prev, new_content, lamport) ==
    IF prev = <<>>
    THEN IF Len(new_content) > MAX_TRACKED_FILE_BYTES
         THEN Detection(<<>>, prev, FALSE, FALSE)
         ELSE Detection(<<FileCreateOp(path, new_content)>>,
                        <<build_snapshot_minimal(new_content)>>, FALSE, FALSE)
    ELSE IF Len(new_content) = Len(prev[1].content) /\ new_content = prev[1].content
    THEN Detection(<<>>, prev, FALSE, FALSE)
    ELSE IF Len(new_content) > Len(prev[1].content)
            /\ starts_with(new_content, prev[1].content)
    THEN handle_append_fast(path, prev[1],
             Slice(new_content, Len(prev[1].content), Len(new_content)), lamport)
    ELSE IF len_diff(new_content, prev[1].content) <= SMALL_EDIT_MAX
    THEN detect_single_edit_fast(path, prev[1], new_content, lamport)
    ELSE with_content_read(path, prev, new_content, lamport)

detect_operations_ultra_fast(path, prev, read, lamport) ==
    IF read = <<>> THEN Detection(<<>>, prev, FALSE, FALSE)
    ELSE ultra_fast_read(path, prev, read[1], lamport)

\* detect_quality_operations stamping every operation with the same lamport
detect_quality_operations_unticked(path, prev, taken, read, lamport, disable_rapid) ==
    IF disable_rapid
    THEN detect_operations_with_content(path, prev, taken, read, 0)
    ELSE detect_operations_ultra_fast(path, prev, read, 0)

\* detect_quality_operations: the detector chosen by DX_DISABLE_RAPID_MODE.
\* taken is take_cached_content(path), which detect_operations consults first.
detect_quality_operations(path, prev, taken, read, lamport, disable_rapid) ==
    IF disable_rapid
    THEN detect_operations_with_content(path, prev, taken, read, lamport)
    ELSE detect_operations_ultra_fast(path, prev, read, lamport)
\* -------------------------------------------------------------------- paths
\* u8::to_ascii_lowercase
lower_char(c) ==
    CASE c = "A" -> "a" [] c = "B" -> "b" [] c = "C" -> "c" [] c = "D" -> "d" [] c = "E" -> "e"
      [] c = "F" -> "f" [] c = "G" -> "g" [] c = "H" -> "h" [] c = "I" -> "i" [] c = "J" -> "j"
      [] c = "K" -> "k" [] c = "L" -> "l" [] c = "M" -> "m" [] c = "N" -> "n" [] c = "O" -> "o"
      [] c = "P" -> "p" [] c = "Q" -> "q" [] c = "R" -> "r" [] c = "S" -> "s" [] c = "T" -> "t"
      [] c = "U" -> "u" [] c = "V" -> "v" [] c = "W" -> "w" [] c = "X" -> "x" [] c = "Y" -> "y"
      [] c = "Z" -> "z"
      [] OTHER -> c

to_ascii_lowercase(name) == [i \in 1..Len(name) |-> lower_char(name[i])]

\* path.file_name()
file_name(path) == path[Len(path)]

is_temp_path(path) ==
    /\ path # <<>>
    /\ LET lower == to_ascii_lowercase(file_name(path))
       IN  \/ ends_with(lower, <<"~">>)
           \/ ends_with(lower, <<".", "t", "m", "p">>)
           \/ ends_with(lower, <<".", "t", "e", "m", "p">>)
           \/ ends_with(lower, <<".", "s", "w", "p">>)
           \/ ends_with(lower, <<".", "s", "w", "x">>)
           \/ ends_with(lower, <<".", "b", "a", "k">>)
           \/ ends_with(lower, <<".", "b", "k">>)
           \/ starts_with(lower, <<"~">>)
           \/ starts_with(lower, <<".", "#">>)
           \/ starts_with(lower, <<".", "~">>)
           \/ starts_with(lower, <<".", "t", "m", "p">>)
           \/ starts_with(lower, <<".", "g", "o", "u", "t", "p", "u", "t",
                                   "s", "t", "r", "e", "a", "m">>)
           \/ contains(lower, <<"g", "o", "u", "t", "p", "u", "t",
                                "s", "t", "r", "e", "a", "m">>)

IGNORED_COMPONENTS ==
    { <<".", "g", "i", "t">>,
      <<".", "d", "x">>,
      <<".", "d", "x", "_", "c", "l", "i", "e", "n", "t">>,
      <<"t", "a", "r", "g", "e", "t">>,
      <<"n", "o", "d", "e", "_", "m", "o", "d", "u", "l", "e", "s">> }

\* is_trackable looking for the reserved names inside the components
is_trackable_substring(path) ==
    \A i \in 1..Len(path) :
       \A needle \in IGNORED_COMPONENTS : ~contains(to_ascii_lowercase(path[i]), needle)

is_trackable(path) ==
    \A i \in 1..Len(path) : to_ascii_lowercase(path[i]) \notin IGNORED_COMPONENTS

\* should_track letting every path through
should_track_everything(path) == TRUE

should_track(path) == is_trackable(path)

\* ------------------------------------------------------------------- state
\* DashMap<K, V> is a function whose domain is the set of keys present.
Insert(map, k, v) == [x \in DOMAIN map \cup {k} |-> IF x = k THEN v ELSE map[x]]

Remove(map, k) == [x \in DOMAIN map \ {k} |-> map[x]]

Get(map, k) == IF k \in DOMAIN map THEN <<map[k]>> ELSE <<>>

Restrict(map, keys) == [x \in keys |-> map[x]]

\* detector.rs:617 sets 2_048 and detector.rs:1523 adds 100; detector.rs:619
\* sets 256.  The model scales the three down so that the modelled paths can
\* overflow the stores.
PREV_CONTENT_LIMIT == 1
PREV_STATE_SLACK == 1
TEMP_CACHE_LIMIT == 1

VARIABLES
    PREV_STATE,           \* DashMap<PathBuf, FileSnapshot>
    LAST_OPERATION,       \* DashMap<String, Uuid>
    GLOBAL_CLOCK,         \* the Lamport counter
    RAPID_SEQUENCE,       \* AtomicU64
    FILE_HASH_CACHE,      \* DashMap<PathBuf, (hash, seq, size)>: the seq
    TEMP_CONTENT_CACHE,   \* DashMap<PathBuf, (Arc<String>, Instant)>: the text
    LAST_RENAME_SOURCE,   \* Mutex<Option<PathBuf>>
    FILE_POOL,            \* RwLock<HashMap<PathBuf, Arc<File>>>: the paths holding a handle
    DISABLE_RAPID_MODE,   \* DX_DISABLE_RAPID_MODE, read once
    sync_mgr,             \* whether start_watching got Some(SyncManager)
    next_uuid,            \* the next fresh operation id (Uuid::new_v4)
    oplog,                \* ids the external log stored (append returned true)
    published,            \* ids published on the broadcast channel, in order
    pump,                 \* "running" | "failed" (loop returned Err) | "panicked"
                          \* | "stopped" (loop returned Ok)
    chain,                \* history: per path, the operation emitted last for it
    lamports,             \* history: the lamports of the positioned operations, in order
    last,                 \* history: the event handled last and what it emitted
    rx,                   \* the events sent on the mpsc channel and not yet received
    sent,                 \* history: how many events the notifier has sent
    emitted,              \* history: each operation handed to emit_operations, in
                          \* order, with the number of the event that built it
    server,               \* the API server: its WebSocket connections, AppState.seen
    orchestrator,         \* Orchestrator.tools, and history: what execute_all last did
    retry,                \* one call of with_retry: its policy, its locals, where it is
    bridge,               \* connect_peer: its two tasks, their channels, SEEN
    lsp                   \* LspDetector.document_versions, and history

detector_vars == <<PREV_STATE, LAST_OPERATION, GLOBAL_CLOCK, RAPID_SEQUENCE,
                   FILE_HASH_CACHE, TEMP_CONTENT_CACHE, FILE_POOL, LAST_RENAME_SOURCE,
                   DISABLE_RAPID_MODE, sync_mgr, next_uuid, oplog, published, pump,
                   chain, lamports, last>>

watcher_vars == <<detector_vars, rx, sent, emitted>>

\* the components that run beside the watcher
beyond_watcher == <<server, orchestrator, retry, bridge, lsp>>

\* what each of these components leaves alone
beyond_server == <<watcher_vars, orchestrator, retry, bridge, lsp>>
beyond_orchestrator == <<watcher_vars, server, retry, bridge, lsp>>
beyond_retry == <<watcher_vars, server, orchestrator, bridge, lsp>>
beyond_bridge == <<watcher_vars, server, orchestrator, retry, lsp>>
beyond_lsp == <<watcher_vars, server, orchestrator, retry, bridge>>

vars == <<watcher_vars, beyond_watcher>>

\* enforce_prev_state_limit: removes entries, in DashMap iteration order (any
\* order), until at most PREV_CONTENT_LIMIT are left.  The set of outcomes.
enforce_prev_state_limit(store) ==
    IF Cardinality(DOMAIN store) <= PREV_CONTENT_LIMIT THEN {store}
    ELSE {Restrict(store, keep) : keep \in
            {k \in SUBSET DOMAIN store : Cardinality(k) = PREV_CONTENT_LIMIT}}

\* update_prev_state never trimming the store
update_prev_state_unbounded(store, path, snapshot) ==
    {IF snapshot # <<>> THEN Insert(store, path, snapshot[1]) ELSE Remove(store, path)}

\* update_prev_state trimming the store as soon as it is over the limit
update_prev_state_eager(store, path, snapshot) ==
    LET s1 == IF snapshot # <<>> THEN Insert(store, path, snapshot[1])
              ELSE Remove(store, path)
    IN  IF Cardinality(DOMAIN s1) > PREV_CONTENT_LIMIT
        THEN enforce_prev_state_limit(s1)
        ELSE {s1}

\* update_prev_state(path, snapshot): the set of stores it can leave
update_prev_state(store, path, snapshot) ==
    LET s1 == IF snapshot # <<>> THEN Insert(store, path, snapshot[1])
              ELSE Remove(store, path)
    IN  IF Cardinality(DOMAIN s1) > PREV_CONTENT_LIMIT + PREV_STATE_SLACK
        THEN enforce_prev_state_limit(s1)
        ELSE {s1}

clear_prev_state(store, path) == update_prev_state(store, path, <<>>)

\* move_prev_state_entry that leaves the snapshot under old
move_prev_state_entry_left(store, old, new) == {store}

move_prev_state_entry(store, old, new) ==
    IF old \in DOMAIN store
    THEN enforce_prev_state_limit(Insert(Remove(store, old), new, store[old]))
    ELSE {store}

\* move_last_operation_entry that drops the entry of old instead of moving it
move_last_operation_entry_dropped(index, old, new) == Remove(index, old)

move_last_operation_entry(index, old, new) ==
    IF old \in DOMAIN index THEN Insert(Remove(index, old), new, index[old])
    ELSE index

clear_last_operation_entry(index, path) == Remove(index, path)

\* enforce_temp_cache_limit, after an insert: the set of outcomes
enforce_temp_cache_limit(cache) ==
    IF Cardinality(DOMAIN cache) <= TEMP_CACHE_LIMIT THEN {cache}
    ELSE {Restrict(cache, keep) : keep \in
            {k \in SUBSET DOMAIN cache : Cardinality(k) = TEMP_CACHE_LIMIT}}

\* cache_temp_content(path), read being read_file_fast(path): the outcomes
cache_temp_content(cache, path, read) ==
    IF ~is_temp_path(path) \/ read = <<>> THEN {cache}
    ELSE enforce_temp_cache_limit(Insert(cache, path, read[1]))

move_cached_content(cache, old, new) ==
    IF old = new THEN cache
    ELSE IF old \in DOMAIN cache THEN Insert(Remove(cache, old), new, cache[old])
    ELSE cache

\* register_operation: parent link from LAST_OPERATION, the fresh id
register_operation(op, index, id) ==
    [op EXCEPT !.id = id,
               !.parent_ops = IF op.file_path \in DOMAIN index
                              THEN {index[op.file_path]} ELSE {}]

\* LAST_OPERATION after register_operation(op)
registered(index, op) == Insert(index, op.file_path, op.id)
\* ------------------------------------------------------------ clock and sink
\* LamportClock::tick: returns the counter and advances it by one;
\* <<value returned, counter afterwards>>
tick(clock) == <<clock, clock + 1>>

\* emit_operations publishing before it looks at the log's answer
emit_operations_publish_first(ops, append_result, log, channel, has_sync) ==
    IF ops = <<>> THEN [oplog |-> log, published |-> channel, failed |-> FALSE]
    ELSE [oplog |-> IF append_result = "inserted" THEN log \cup {ops[1].id} ELSE log,
          published |-> IF has_sync THEN Append(channel, ops[1].id) ELSE channel,
          failed |-> append_result = "error"]

\* emit_operations for the operation a handler built: append_result is what
\* OperationLog::append answers ("inserted" Ok(true), "duplicate" Ok(false),
\* "error" Err).  The log, the broadcast channel, and whether `?` returned Err.
emit_operations(ops, append_result, log, channel, has_sync) ==
    IF ops = <<>> THEN [oplog |-> log, published |-> channel, failed |-> FALSE]
    ELSE IF append_result = "error"
    THEN [oplog |-> log, published |-> channel, failed |-> TRUE]
    ELSE IF append_result = "inserted"
    THEN [oplog |-> log \cup {ops[1].id},
          published |-> IF has_sync THEN Append(channel, ops[1].id) ELSE channel,
          failed |-> FALSE]
    ELSE [oplog |-> log, published |-> channel, failed |-> FALSE]

\* ----------------------------------------------------------------- handlers
\* The detector's stores while one event is handled: the handlers below map the
\* stores before a call to the set of stores the call can leave (eviction order
\* is arbitrary), together with the operations the call returned (registered),
\* whether it panicked or was suppressed by the rapid detector, the content it
\* took from TEMP_CONTENT_CACHE, and the paths whose snapshot it evicted or
\* moved away (reset).
Stores ==
    [prev_state |-> PREV_STATE, last_op |-> LAST_OPERATION, clock |-> GLOBAL_CLOCK,
     seq |-> RAPID_SEQUENCE, hash_cache |-> FILE_HASH_CACHE,
     temp_cache |-> TEMP_CONTENT_CACHE, pool |-> FILE_POOL, ops |-> <<>>,
     panicked |-> FALSE,
     suppressed |-> FALSE, did_read |-> FALSE, cached |-> <<>>, reset |-> {}]

\* the stores after a detection d on path: update_prev_state where the detector
\* called it, the tick, register_operation for the operation it built
after_detection(st, path, d, id) ==
    LET ops == IF d.ops = <<>> THEN <<>>
               ELSE <<register_operation(d.ops[1], st.last_op, id)>>
        stores == IF d.snap = Get(st.prev_state, path) THEN {st.prev_state}
                  ELSE update_prev_state(st.prev_state, path, d.snap)
        keys == IF d.snap # <<>> THEN DOMAIN st.prev_state \cup {path}
                ELSE DOMAIN st.prev_state \ {path}
    IN  {[st EXCEPT !.prev_state = ps,
                    !.last_op = IF ops = <<>> THEN @ ELSE registered(@, ops[1]),
                    !.clock = IF d.ticked THEN tick(@)[2] ELSE @,
                    !.ops = ops,
                    !.panicked = d.panicked,
                    !.reset = @ \cup (keys \ DOMAIN ps)] : ps \in stores}

\* read_file_fast(path) returning read: a successful read leaves a handle for
\* path in the pool (the one it found there or the one it opened)
pooled(pool, path, read) == IF read # <<>> THEN pool \cup {path} ELSE pool

\* the pool half of clear_prev_state leaving the handle in the pool
pool_remove_kept(pool, path) == pool

\* the pool half of clear_prev_state: FILE_POOL.write().remove(path)
pool_remove(pool, path) == pool \ {path}

\* the pool half of move_prev_state_entry
pool_move(pool, old, new) == IF old \in pool THEN (pool \ {old}) \cup {new} ELSE pool

\* detect_rapid_change writing the event's number into the cache even when it
\* suppresses the event
detect_rapid_change_refreshing(st, path, disable_rapid) ==
    IF disable_rapid THEN <<TRUE, st>>
    ELSE LET sequence == st.seq
             ticked == [st EXCEPT !.seq = @ + 1,
                                  !.hash_cache = Insert(@, path, sequence)]
         IN  IF path \in DOMAIN st.hash_cache
                /\ sequence - st.hash_cache[path] < RAPID_WINDOW
             THEN <<FALSE, [ticked EXCEPT !.suppressed = TRUE]>>
             ELSE <<TRUE, ticked>>

\* detect_rapid_change: <<passed, stores after>>
detect_rapid_change(st, path, disable_rapid) ==
    IF disable_rapid THEN <<TRUE, st>>
    ELSE LET sequence == st.seq
             ticked == [st EXCEPT !.seq = @ + 1]
         IN  IF path \in DOMAIN st.hash_cache
                /\ sequence - st.hash_cache[path] < RAPID_WINDOW
             THEN <<FALSE, [ticked EXCEPT !.suppressed = TRUE]>>
             ELSE <<TRUE, [ticked EXCEPT !.hash_cache = Insert(@, path, sequence)]>>

process_path(st, path, read, is_dir, id, disable_rapid) ==
    IF is_temp_path(path)
    THEN {[st EXCEPT !.temp_cache = c, !.did_read = TRUE,
                     !.pool = pooled(@, path, read)]
          : c \in cache_temp_content(st.temp_cache, path, read)}
    ELSE IF ~should_track(path) \/ is_dir THEN {st}
    ELSE
    LET rapid == detect_rapid_change(st, path, disable_rapid)
        s1 == rapid[2]
    IN  IF ~rapid[1] THEN {s1}
        ELSE
        LET taken == IF disable_rapid THEN Get(s1.temp_cache, path) ELSE <<>>
            s2 == IF disable_rapid
                  THEN [s1 EXCEPT !.temp_cache = Remove(@, path),
                                  !.did_read = (taken = <<>>),
                                  !.cached = taken,
                                  !.pool = IF taken = <<>> THEN pooled(@, path, read)
                                           ELSE @]
                  ELSE [s1 EXCEPT !.did_read = TRUE, !.pool = pooled(@, path, read)]
            d == detect_quality_operations(path, Get(s2.prev_state, path), taken, read,
                                           tick(s2.clock)[1], disable_rapid)
        IN  after_detection(s2, path, d, id)

\* a FileDelete / FileRename built and registered by the pump itself
file_op(st, op, id) ==
    LET reg == register_operation(op, st.last_op, id)
    IN  [st EXCEPT !.last_op = registered(@, reg), !.ops = <<reg>>]

handle_rename_transition(st0, old_path, new_path, read, is_dir, id, disable_rapid) ==
    LET st == [st0 EXCEPT !.temp_cache = move_cached_content(@, old_path, new_path)]
        old_is_temp == is_temp_path(old_path)
        new_is_temp == is_temp_path(new_path)
        old_trackable == should_track(old_path)
        new_trackable == should_track(new_path)
    IN  IF old_is_temp /\ ~new_is_temp
        THEN IF ~should_track(new_path)
             THEN {[st EXCEPT !.temp_cache = Remove(@, new_path)]}
             ELSE IF new_path \in DOMAIN st.temp_cache
             THEN LET content == st.temp_cache[new_path]
                      s1 == [st EXCEPT !.temp_cache = Remove(@, new_path),
                                       !.cached = <<content>>]
                      d == detect_operations_with_content(
                               new_path, Get(s1.prev_state, new_path), <<content>>, <<>>,
                               tick(s1.clock)[1])
                  IN  after_detection(s1, new_path, d, id)
             ELSE process_path(st, new_path, read, is_dir, id, disable_rapid)
        ELSE IF old_trackable /\ new_trackable
        THEN {file_op([st EXCEPT !.prev_state = ps,
                                 !.pool = pool_move(@, old_path, new_path),
                                 !.last_op = move_last_operation_entry(@, old_path, new_path),
                                 !.reset = IF old_path \in DOMAIN st.prev_state
                                           THEN (((DOMAIN st.prev_state) \cup {new_path})
                                                    \ DOMAIN ps) \cup {old_path}
                                           ELSE {old_path}],
                      [NewOp("FileRename", new_path) EXCEPT !.old_path = old_path,
                                                            !.new_path = new_path],
                      id)
              : ps \in move_prev_state_entry(st.prev_state, old_path, new_path)}
        ELSE IF ~old_trackable /\ new_trackable
        THEN process_path(st, new_path, read, is_dir, id, disable_rapid)
        ELSE IF old_trackable /\ ~new_trackable
        THEN {file_op([st EXCEPT !.temp_cache = Remove(@, old_path),
                                 !.prev_state = ps,
                                 !.pool = pool_remove(@, old_path),
                                 !.last_op = clear_last_operation_entry(@, old_path)],
                      NewOp("FileDelete", old_path), id)
              : ps \in clear_prev_state(st.prev_state, old_path)}
        ELSE {st}

\* the Remove branch of process_events_loop, for one path
handle_remove(st, path, id) ==
    IF is_temp_path(path) THEN {st}
    ELSE LET s1 == [st EXCEPT !.temp_cache = Remove(@, path)]
         IN  IF should_track(path)
             THEN {file_op([s1 EXCEPT !.prev_state = ps,
                                      !.pool = pool_remove(@, path),
                                      !.last_op = clear_last_operation_entry(@, path)],
                           NewOp("FileDelete", path), id)
                   : ps \in clear_prev_state(s1.prev_state, path)}
             ELSE {s1}
\* ------------------------------------------------------------------- inputs
FileA == << <<"a">> >>
FileB == << <<"b">> >>
TempA == << <<"a", "~">> >>
FileC == << <<"c">> >>
\* ".GIT/a": a file under an ignored directory, and "b~": a second temp file
GitA == << <<".", "G", "I", "T">>, <<"a">> >>
TempB == << <<"b", "~">> >>

\* "a", "b", newline, e-acute (C3 A9), e-grave (C3 A8)
Alphabet == {<<97>>, <<98>>, <<NL>>, <<195, 169>>, <<195, 168>>}

RECURSIVE Strings(_)
Strings(n) ==
    IF n = 0 THEN {<<>>}
    ELSE Strings(n - 1) \cup {s \o c : s \in Strings(n - 1), c \in Alphabet}

\* "foo bar baz", "foo QUX baz"
FooBarBaz == <<102, 111, 111, 32, 98, 97, 114, 32, 98, 97, 122>>
FooQuxBaz == <<102, 111, 111, 32, 81, 85, 88, 32, 98, 97, 122>>
\* "foo bar baz" followed by "!" up to n bytes
Padded(n) == FooBarBaz \o [i \in 1..(n - Len(FooBarBaz)) |-> 33]
\* a content of exactly MAX_TRACKED_FILE_BYTES bytes, and one a byte longer
AtLimit == Padded(MAX_TRACKED_FILE_BYTES)
Oversize == Padded(MAX_TRACKED_FILE_BYTES + 1)

\* contents the diff scenarios read
DiffContents == Strings(MaxChars) \cup {FooBarBaz, FooQuxBaz, AtLimit, Oversize}

\* contents the event pump scenarios read: "a", "ab"
PumpContents == {<<97>>, <<97, 98>>}

\* contents of the atomic-save scenarios: "a", "ab", e-acute, e-grave
SaveContents == {<<97>>, <<97, 98>>, <<195, 169>>, <<195, 168>>}

\* read_file_fast: Err, or Ok(text)
Reads(contents) == {<<>>} \cup {<<c>> : c \in contents}

\* OperationLog::append: Ok(true), Ok(false) (the id is already stored), Err
AppendResults == {"inserted", "duplicate", "error"}

\* a log that stores every operation
Stored == {"inserted"}

\* RAPID_SEQUENCE is explored for MaxSeq events from the start of each of the
\* first MaxWindows + 1 windows of RAPID_WINDOW events; SuppressedBatch takes
\* it from one window to the next.
SeqOk(s) ==
    /\ s % RAPID_WINDOW < MaxSeq \/ s % RAPID_WINDOW = RAPID_WINDOW - 1
    /\ s \div RAPID_WINDOW <= MaxWindows

\* --------------------------------------------------------------- API server
\* server/api.rs.  An operation on the wire is its id.  Each connection is
\* handle_ws for one client: "upgraded" while the handshake is sent,
\* "subscribed" from state.sync.subscribe() on, when its two tasks run.
Clients == {"A", "B"}
OpIds == {1, 2}

\* the connections at `phase`
InPhase(conns, phases) == {c \in Clients : conns[c] \in phases}

\* start(): no connection, nothing seen
ServerStart ==
    [conn |-> [c \in Clients |-> "none"],
     socket |-> [c \in Clients |-> <<>>],     \* sent by the client, not yet read
     receiver |-> [c \in Clients |-> <<>>],   \* broadcast Receiver, not yet forwarded
     delivered |-> [c \in Clients |-> {}],    \* ids the client got over its socket
     seen |-> {},
     sends |-> 0,
     promised |-> {}]                         \* history: <<id, client>> owed a delivery

\* enforce_seen_limit: the caches it can leave
enforce_seen_limit(cache) ==
    IF Cardinality(cache) <= SEEN_LIMIT THEN {cache}
    ELSE {keep \in SUBSET cache : Cardinality(keep) = SEEN_LIMIT}

\* insert_seen(cache, id): whether the id was new, and the cache afterwards
insert_seen(cache, id) ==
    IF id \in cache THEN {[inserted |-> FALSE, cache |-> cache]}
    ELSE {[inserted |-> TRUE, cache |-> kept] : kept \in enforce_seen_limit(cache \cup {id})}

\* SyncManager::subscribe: a Receiver that gets what is published from now on
subscribe(receivers, c) == [receivers EXCEPT ![c] = <<>>]

\* SyncManager::publish: every live Receiver gets the operation
publish(receivers, subscribed, id) ==
    [c \in Clients |-> IF c \in subscribed THEN Append(receivers[c], id)
                       ELSE receivers[c]]

\* ws_handler: the upgrade completes, handle_ws starts and sends the handshake
Upgrade(c) ==
    /\ server.conn[c] = "none"
    /\ server' = [server EXCEPT !.conn[c] = "upgraded"]
    /\ UNCHANGED beyond_server

\* handle_ws: the handshake is sent, the connection subscribes and spawns its
\* send task and its receive task
Subscribe(c) ==
    /\ server.conn[c] = "upgraded"
    /\ server' = [server EXCEPT !.conn[c] = "subscribed",
                                !.receiver = subscribe(@, c)]
    /\ UNCHANGED beyond_server

\* a connected client sends an operation to the server
ClientSend(c, id) ==
    /\ server.conn[c] # "none"
    /\ server.sends < MaxClientSends
    /\ server' = [server EXCEPT
                    !.socket[c] = Append(@, [id |-> id,
                                             connected |-> InPhase(server.conn,
                                                             {"upgraded", "subscribed"})]),
                    !.sends = @ + 1]
    /\ UNCHANGED beyond_server

\* recv_task: one message read; an operation with a new id is published
ServerReceive(c) ==
    /\ server.conn[c] = "subscribed"
    /\ server.socket[c] # <<>>
    /\ LET msg == Head(server.socket[c])
       IN  \E r \in insert_seen(server.seen, msg.id) :
              server' = [server EXCEPT
                           !.socket[c] = Tail(@),
                           !.seen = r.cache,
                           !.receiver = IF r.inserted
                                        THEN publish(@, InPhase(server.conn, {"subscribed"}),
                                                     msg.id)
                                        ELSE @,
                           !.promised = IF msg.id \in server.seen THEN @
                                        ELSE @ \cup {<<msg.id, k>> : k \in msg.connected}]
    /\ UNCHANGED beyond_server

\* send_task: one operation taken from the Receiver and sent to the client
Forward(c) ==
    /\ server.conn[c] = "subscribed"
    /\ server.receiver[c] # <<>>
    /\ server' = [server EXCEPT !.receiver[c] = Tail(@),
                                !.delivered[c] = @ \cup {Head(server.receiver[c])}]
    /\ UNCHANGED beyond_server

\* ------------------------------------------------------------- orchestrator
\* orchestrator.rs.  A tool is what its DxTool methods answer: name(),
\* priority(), should_run(), dependencies(), and whether execute() returns Ok.
ToolNames == {"x", "y"}
Priorities == {10, 20}
DependencyLists == {{}, {"x"}}

Tools ==
    [name : ToolNames, priority : Priorities, should_run : BOOLEAN,
     dependencies : DependencyLists, execute : {"Ok", "Err"}]

\* Orchestrator::new: no tool; execute_all not yet called
OrchestratorNew ==
    [tools |-> <<>>,
     last_run |-> [called |-> FALSE, registered |-> <<>>, executed |-> <<>>,
                   returned |-> "none", outputs |-> <<>>]]

\* self.tools left in registration order
sort_by_key_skipped(tools) == tools

\* one step of the stable sort: tool goes behind the sorted tools that do not
\* come after it
insert_by_key(sorted, tool) ==
    LET before == {i \in 1..Len(sorted) : sorted[i].priority <= tool.priority}
        n == Cardinality({i \in before : \A j \in 1..i : j \in before})
    IN  SubSeq(sorted, 1, n) \o <<tool>> \o SubSeq(sorted, n + 1, Len(sorted))

RECURSIVE sort_by_key(_)
\* self.tools.sort_by_key(|t| t.priority()): a stable sort
sort_by_key(tools) ==
    IF tools = <<>> THEN <<>>
    ELSE insert_by_key(sort_by_key(SubSeq(tools, 1, Len(tools) - 1)), tools[Len(tools)])

\* validate_dependencies: Ok(()) or the bail
validate_dependencies(tools) ==
    LET tool_names == {tools[i].name : i \in 1..Len(tools)}
    IN  \A i \in 1..Len(tools) : tools[i].dependencies \subseteq tool_names

RECURSIVE run_tools(_, _, _)
\* the loop of execute_all from tool i on: should_run, execute()?, push
run_tools(tools, i, run) ==
    IF i > Len(tools) THEN [run EXCEPT !.returned = "Ok"]
    ELSE IF ~tools[i].should_run THEN run_tools(tools, i + 1, run)
    ELSE IF tools[i].execute = "Err"
    THEN [run EXCEPT !.executed = Append(@, tools[i]), !.returned = "Err",
                     !.outputs = <<>>]
    ELSE run_tools(tools, i + 1,
                   [run EXCEPT !.executed = Append(@, tools[i]),
                               !.outputs = Append(@, [tool |-> tools[i].name])])

\* register_tool
register_tool(tool) ==
    /\ Len(orchestrator.tools) < MaxTools
    /\ orchestrator' = [orchestrator EXCEPT !.tools = Append(@, tool)]
    /\ UNCHANGED beyond_orchestrator

\* execute_all: sort, validate, run
execute_all ==
    /\ orchestrator.tools # <<>>
    /\ LET sorted == sort_by_key(orchestrator.tools)
           run == [called |-> TRUE, registered |-> orchestrator.tools,
                   executed |-> <<>>, returned |-> "Err", outputs |-> <<>>]
       IN  orchestrator' = [tools |-> sorted,
                            last_run |-> IF validate_dependencies(sorted)
                                         THEN run_tools(sorted, 1, run)
                                         ELSE run]
    /\ UNCHANGED beyond_orchestrator

\* -------------------------------------------------------------------- retry
\* error.rs.  Durations are whole numbers of a time unit; the policy's fields
\* are public, so any value can be passed.
RetryPolicies ==
    [max_attempts : 0..MaxAttempts, initial_delay : {0, 1},
     backoff_multiplier : {-1, 2}, max_delay : {1, 3}]

\* before with_retry is called
NotCalled ==
    [at |-> "idle",
     policy |-> [max_attempts |-> 0, initial_delay |-> 0, backoff_multiplier |-> 2,
                 max_delay |-> 3],
     attempts |-> 0, delay |-> 0,
     results |-> <<>>]          \* history: what each invocation of operation() returned

\* `attempts >= policy.max_attempts` letting one more attempt through
out_of_attempts_late(attempts, policy) == attempts > policy.max_attempts

\* `if attempts >= policy.max_attempts`
out_of_attempts(attempts, policy) == attempts >= policy.max_attempts

\* (delay.as_secs_f64() * policy.backoff_multiplier).min(policy.max_delay.as_secs_f64())
backoff(delay, policy) == Min2(delay * policy.backoff_multiplier, policy.max_delay)

\* with_retry(policy, operation) is called: attempts = 0, delay = initial_delay
CallWithRetry(policy) ==
    /\ retry.at = "idle"
    /\ retry' = [at |-> "loop", policy |-> policy, attempts |-> 0,
                 delay |-> policy.initial_delay, results |-> <<>>]
    /\ UNCHANGED beyond_retry

\* one turn of the loop: attempts += 1, operation() is invoked and returns result
Attempt(result) ==
    /\ retry.at = "loop"
    /\ LET attempts == retry.attempts + 1
       IN  retry' = [retry EXCEPT
                       !.attempts = attempts,
                       !.results = Append(@, result),
                       !.at = IF result = "Ok" THEN "returned Ok"
                              ELSE IF out_of_attempts(attempts, retry.policy)
                              THEN "returned Err"
                              ELSE "sleep"]
    /\ UNCHANGED beyond_retry

\* sleep(delay).await is over; the next delay is computed: Duration::from_secs_f64
\* panics on a negative number
Backoff ==
    /\ retry.at = "sleep"
    /\ LET next == backoff(retry.delay, retry.policy)
       IN  retry' = IF next < 0 THEN [retry EXCEPT !.at = "panicked"]
                    ELSE [retry EXCEPT !.at = "loop", !.delay = next]
    /\ UNCHANGED beyond_retry

\* -------------------------------------------------------------- peer bridge
\* sync/remote.rs.  An operation is its actor and its id; the local actor's
\* ids are fresh UUIDs, so the remote can only know one after it was sent.
LocalActor == "me"
Actors == {LocalActor, "peer"}
LocalIds == {1, 2}
RemoteIds == {3}

\* connect_peer returned: both tasks spawned, nothing seen or queued
Connected ==
    [rx |-> <<>>,            \* the forward task's subscription to the SyncManager
     ws_rx |-> <<>>,         \* messages from the remote not yet read
     SEEN |-> {},            \* static SEEN: DashSet<Uuid>
     forward |-> <<>>,       \* the operation the forward task is about to send
     forwarding |-> TRUE,    \* the forward task has not left its loop
     recv |-> <<>>,          \* the operation the receive task is about to append
     published |-> 0,        \* history: local publishes so far
     messages |-> 0,         \* history: remote messages so far
     arrived |-> {},         \* history: ids of the operations the remote has sent
     sent |-> <<>>,          \* history: operations sent to the remote, and whether
                             \*   the remote had sent the id before
     applied |-> <<>>]       \* history: operations appended and published locally

\* the forward task's test without SEEN
forwards_own(op, seen) == op.actor_id = LocalActor

\* op_arc.actor_id == actor_id_clone && SEEN.insert(op_arc.id)
forwards(op, seen) == op.actor_id = LocalActor /\ op.id \notin seen

\* op.actor_id != actor_id_clone2 && SEEN.insert(op.id)
applies(op, seen) == op.actor_id # LocalActor /\ op.id \notin seen

\* the ids sent to the remote so far
SentIds == {bridge.sent[i].op.id : i \in 1..Len(bridge.sent)}

\* the watcher (or any local publisher) publishes an operation of the local actor
LocalPublish(id) ==
    /\ bridge.published < MaxPublishes
    /\ bridge' = [bridge EXCEPT !.rx = Append(@, [actor_id |-> LocalActor, id |-> id]),
                                !.published = @ + 1]
    /\ UNCHANGED beyond_bridge

\* the remote sends an operation: one of another actor, or one it was sent
RemoteMessage(op) ==
    /\ bridge.messages < MaxMessages
    /\ op.id \in RemoteIds \cup SentIds
    /\ bridge' = [bridge EXCEPT !.ws_rx = Append(@, op),
                                !.messages = @ + 1,
                                !.arrived = @ \cup {op.id}]
    /\ UNCHANGED beyond_bridge

\* forward task: rx.recv() returns an operation; the test, with SEEN.insert
ForwardReceive ==
    /\ bridge.forwarding
    /\ bridge.forward = <<>>
    /\ bridge.rx # <<>>
    /\ LET op == Head(bridge.rx)
       IN  bridge' = IF forwards(op, bridge.SEEN)
                     THEN [bridge EXCEPT !.rx = Tail(@), !.SEEN = @ \cup {op.id},
                                         !.forward = <<op>>]
                     ELSE [bridge EXCEPT !.rx = Tail(@)]
    /\ UNCHANGED beyond_bridge

\* forward task: ws_tx.send(Message::Text(json)); is_err() leaves the loop
ForwardSend(is_err) ==
    /\ bridge.forward # <<>>
    /\ LET op == bridge.forward[1]
       IN  bridge' = IF is_err
                     THEN [bridge EXCEPT !.forward = <<>>, !.forwarding = FALSE]
                     ELSE [bridge EXCEPT !.forward = <<>>,
                                         !.sent = Append(@, [op |-> op,
                                                             echo |-> op.id \in bridge.arrived])]
    /\ UNCHANGED beyond_bridge

\* receive task: ws_rx.next() returns an operation; the test, with SEEN.insert
ReceiveNext ==
    /\ bridge.recv = <<>>
    /\ bridge.ws_rx # <<>>
    /\ LET op == Head(bridge.ws_rx)
       IN  bridge' = IF applies(op, bridge.SEEN)
                     THEN [bridge EXCEPT !.ws_rx = Tail(@), !.SEEN = @ \cup {op.id},
                                         !.recv = <<op>>]
                     ELSE [bridge EXCEPT !.ws_rx = Tail(@)]
    /\ UNCHANGED beyond_bridge

\* receive task: oplog.append(op).await, then sync.publish(op), which the
\* forward task's subscription receives as well
ReceiveApply ==
    /\ bridge.recv # <<>>
    /\ LET op == bridge.recv[1]
       IN  bridge' = [bridge EXCEPT !.recv = <<>>,
                                   !.applied = Append(@, op),
                                   !.rx = Append(@, op)]
    /\ UNCHANGED beyond_bridge

\* -------------------------------------------------------------- LSP detector
\* watcher_legacy/lsp_detector.rs
Uris == {"u", "v"}
Versions == 1..MaxVersion

\* LspDetector::new, nothing processed
LspDetectorNew ==
    [document_versions |-> <<>>,   \* HashMap<String, i32>
     converting |-> {},            \* calls past the version check, not yet returned
     calls |-> 0,                  \* history: process_change calls so far
     accepted |-> <<>>,            \* history: <<uri, version>> in the order accepted
     emitted |-> {},               \* history: <<uri, version>> that emitted operations
     last |-> [uri |-> "", version |-> 0, recorded |-> <<>>, accepted |-> FALSE]]

\* the version check letting the recorded version through again
already_processed_older(version, last_version) == version < last_version

\* if event.version <= last_version { return Ok(()) }
already_processed(version, last_version) == version <= last_version

\* process_change up to the end of the block holding the write lock
process_change(uri, version) ==
    /\ lsp.calls < MaxChanges
    /\ LET recorded == Get(lsp.document_versions, uri)
           skip == recorded # <<>> /\ already_processed(version, recorded[1])
       IN  lsp' = IF skip
                  THEN [lsp EXCEPT !.calls = @ + 1,
                                   !.last = [uri |-> uri, version |-> version,
                                             recorded |-> recorded, accepted |-> FALSE]]
                  ELSE [lsp EXCEPT !.calls = @ + 1,
                                   !.document_versions = Insert(@, uri, version),
                                   !.converting = @ \cup {<<uri, version>>},
                                   !.accepted = Append(@, <<uri, version>>),
                                   !.last = [uri |-> uri, version |-> version,
                                             recorded |-> recorded, accepted |-> TRUE]]
    /\ UNCHANGED beyond_lsp

\* the rest of process_change: uri_to_path, convert_changes_to_operations,
\* oplog.append; any of them may return Err, and the event may carry no change
convert_and_store(event, outcome) ==
    /\ event \in lsp.converting
    /\ lsp' = [lsp EXCEPT !.converting = @ \ {event},
                          !.emitted = IF outcome = "Ok" THEN @ \cup {event} ELSE @]
    /\ UNCHANGED beyond_lsp

\* ------------------------------------------------------------------ actions
\* the state start_watching sets up: empty stores; the environment decides the
\* rapid mode and whether a SyncManager is attached
InitWith(rapid_off, syncs) ==
    /\ PREV_STATE = <<>>
    /\ LAST_OPERATION = <<>>
    /\ GLOBAL_CLOCK = 0
    /\ RAPID_SEQUENCE = 0
    /\ FILE_HASH_CACHE = <<>>
    /\ TEMP_CONTENT_CACHE = <<>>
    /\ FILE_POOL = {}
    /\ LAST_RENAME_SOURCE = <<>>
    /\ DISABLE_RAPID_MODE \in rapid_off
    /\ sync_mgr \in syncs
    /\ next_uuid = 1
    /\ oplog = {}
    /\ published = <<>>
    /\ pump = "running"
    /\ chain = <<>>
    /\ lamports = <<>>
    /\ rx = <<>>
    /\ sent = 0
    /\ emitted = <<>>
    /\ server = ServerStart
    /\ orchestrator = OrchestratorNew
    /\ retry = NotCalled
    /\ bridge = Connected
    /\ lsp = LspDetectorNew
    /\ last = [kind |-> "start", path |-> <<>>, old_path |-> <<>>,
               did_read |-> FALSE, read |-> <<>>, cached |-> <<>>,
               prev |-> <<>>, lastop |-> <<>>, before |-> <<>>,
               old_tracked |-> FALSE, old_lastop |-> <<>>, old_prev |-> <<>>,
               clock |-> 0, ops |-> <<>>,
               suppressed |-> FALSE, append |-> "none"]

\* history: the operation emitted last for each path, whether the path's
\* snapshot was evicted or renamed away since, and, for a FileRename, the
\* snapshot the source path held when it was renamed
chained(history, ops, reset, moved) ==
    LET marked == [p \in DOMAIN history |->
                     [history[p] EXCEPT !.reset = @ \/ p \in reset]]
    IN  IF ops = <<>> THEN marked
        ELSE Insert(marked, ops[1].file_path,
                    [id |-> ops[1].id, kind |-> ops[1].kind,
                     reset |-> ops[1].file_path \in reset,
                     moved |-> moved])

\* The end of a handler: st is the outcome of the handler's detection, the log
\* answers the append of the operation (if any) with one of results, and
\* emit_operations stores and publishes.  At most max_ops operations are built
\* in one behaviour.
\* rx.recv() handing out the event sent last
recv_newest_first(queue) ==
    [event |-> queue[Len(queue)], rest |-> SubSeq(queue, 1, Len(queue) - 1)]

\* rx.recv(): the event sent first among those waiting, and the rest
recv(queue) == [event |-> Head(queue), rest |-> Tail(queue)]

\* Sender::send from the debouncer's thread: channel() has no capacity, the
\* event is queued behind the waiting ones whatever their number
send(queue, event) == Append(queue, event)

\* the number of the event being handled: 0 when it was never queued
Handling == IF rx = <<>> THEN 0 ELSE recv(rx).event.n

Commit(kind, path, old_path, read, st, results, max_ops) ==
    /\ st.ops = <<>> \/ next_uuid <= max_ops
    /\ st.seq = RAPID_SEQUENCE \/ SeqOk(RAPID_SEQUENCE)
    /\ PREV_STATE' = st.prev_state
    /\ LAST_OPERATION' = st.last_op
    /\ GLOBAL_CLOCK' = st.clock
    /\ RAPID_SEQUENCE' = st.seq
    /\ FILE_HASH_CACHE' = st.hash_cache
    /\ TEMP_CONTENT_CACHE' = st.temp_cache
    /\ FILE_POOL' = st.pool
    /\ next_uuid' = IF st.ops = <<>> THEN next_uuid ELSE next_uuid + 1
    /\ chain' = chained(chain, st.ops, st.reset,
                         IF st.ops # <<>> /\ st.ops[1].kind = "FileRename"
                         THEN Get(PREV_STATE, old_path) ELSE <<>>)
    /\ lamports' = IF st.ops # <<>> /\ HasPosition(st.ops[1])
                   THEN Append(lamports, st.ops[1].lamport) ELSE lamports
    /\ \E append_result \in (IF st.ops # <<>> /\ ~st.panicked
                              THEN results ELSE {"none"}) :
       LET sink == emit_operations(IF st.panicked THEN <<>> ELSE st.ops,
                                   append_result, oplog, published, sync_mgr)
       IN  /\ oplog' = sink.oplog
           /\ published' = sink.published
           /\ pump' = IF st.panicked THEN "panicked"
                      ELSE IF sink.failed THEN "failed"
                      ELSE "running"
           /\ last' = [kind |-> kind, path |-> path, old_path |-> old_path,
                       did_read |-> st.did_read,
                       read |-> IF st.did_read \/ st.suppressed THEN read ELSE <<>>,
                       cached |-> st.cached,
                       prev |-> Get(PREV_STATE, path),
                       lastop |-> Get(LAST_OPERATION, path),
                       before |-> IF st.ops # <<>>
                                  THEN Get(chain, st.ops[1].file_path)
                                  ELSE Get(chain, path),
                       old_tracked |-> old_path # <<>> /\ old_path \in DOMAIN PREV_STATE,
                       old_lastop |-> IF old_path = <<>> THEN <<>>
                                      ELSE Get(LAST_OPERATION, old_path),
                       old_prev |-> IF old_path = <<>> THEN <<>>
                                    ELSE Get(PREV_STATE, old_path),
                       clock |-> GLOBAL_CLOCK,
                       ops |-> st.ops,
                       suppressed |-> st.suppressed,
                       append |-> append_result]
    /\ rx' = IF rx = <<>> THEN rx ELSE recv(rx).rest
    /\ emitted' = IF st.ops # <<>> /\ ~st.panicked
                  THEN Append(emitted, [id |-> st.ops[1].id,
                                        file_path |-> st.ops[1].file_path,
                                        event |-> Handling])
                  ELSE emitted
    /\ UNCHANGED <<DISABLE_RAPID_MODE, sync_mgr, sent, beyond_watcher>>

\* EventKind::Modify(_) other than a rename: process_path
ModifyEvent(path, read, is_dir, results, max_ops) ==
    /\ pump = "running"
    /\ \E st \in process_path(Stores, path, read, is_dir, next_uuid, DISABLE_RAPID_MODE) :
          Commit("Path", path, <<>>, read, st, results, max_ops)
    /\ UNCHANGED LAST_RENAME_SOURCE

\* EventKind::Create(_): warm_file, then process_path
CreateEvent(path, read, is_dir, results, max_ops) ==
    /\ pump = "running"
    /\ \E st \in process_path(Stores, path, read, is_dir, next_uuid, DISABLE_RAPID_MODE) :
          Commit("Path", path, <<>>, read, st, results, max_ops)
    /\ UNCHANGED LAST_RENAME_SOURCE

\* EventKind::Remove(_)
RemoveEvent(path, results, max_ops) ==
    /\ pump = "running"
    /\ \E st \in handle_remove(Stores, path, next_uuid) :
          Commit("Remove", path, <<>>, <<>>, st, results, max_ops)
    /\ UNCHANGED LAST_RENAME_SOURCE

\* RenameMode::From: cache a temp file's content, remember the source
RenameFromEvent(old_path, read) ==
    /\ pump = "running"
    /\ \E c \in (IF is_temp_path(old_path)
                 THEN cache_temp_content(TEMP_CONTENT_CACHE, old_path, read)
                 ELSE {TEMP_CONTENT_CACHE}) :
          Commit("RenameFrom", old_path, <<>>, read,
                 [Stores EXCEPT !.temp_cache = c, !.did_read = is_temp_path(old_path),
                                !.pool = IF is_temp_path(old_path)
                                         THEN pooled(@, old_path, read) ELSE @],
                 {"none"}, MaxOps)
    /\ LAST_RENAME_SOURCE' = <<old_path>>

\* RenameMode::To: event_paths is <<new>> or <<old, new>>
RenameToEvent(event_paths, read, is_dir, results, max_ops) ==
    /\ pump = "running"
    /\ LET new_path == event_paths[Len(event_paths)]
           old == IF LAST_RENAME_SOURCE # <<>> THEN LAST_RENAME_SOURCE
                  ELSE IF Len(event_paths) >= 2 THEN <<event_paths[1]>>
                  ELSE <<>>
       IN  IF old = <<>>
           THEN Commit("RenameTo", new_path, <<>>, read, Stores, results, max_ops)
           ELSE \E st \in handle_rename_transition(Stores, old[1], new_path, read, is_dir,
                                                   next_uuid, DISABLE_RAPID_MODE) :
                   Commit("Rename", new_path, old[1], read, st, results, max_ops)
    /\ LAST_RENAME_SOURCE' = <<>>

\* RenameMode::Both
RenameBothEvent(old_path, new_path, read, is_dir, results, max_ops) ==
    /\ pump = "running"
    /\ \E st \in handle_rename_transition(Stores, old_path, new_path, read, is_dir,
                                          next_uuid, DISABLE_RAPID_MODE) :
          Commit("Rename", new_path, old_path, read, st, results, max_ops)
    /\ LAST_RENAME_SOURCE' = <<>>

\* A debounced batch of Modify events on one path, as many as the rapid detector
\* suppresses: each only advances RAPID_SEQUENCE; the next event on the path is
\* outside the window.
SuppressedBatch(path) ==
    /\ pump = "running"
    /\ ~DISABLE_RAPID_MODE
    /\ ~is_temp_path(path) /\ should_track(path)
    /\ path \in DOMAIN FILE_HASH_CACHE
    /\ SeqOk(RAPID_SEQUENCE)
    /\ RAPID_SEQUENCE - FILE_HASH_CACHE[path] < RAPID_WINDOW
    /\ SeqOk(FILE_HASH_CACHE[path] + RAPID_WINDOW)
    /\ RAPID_SEQUENCE' = FILE_HASH_CACHE[path] + RAPID_WINDOW
    /\ last' = [last EXCEPT !.kind = "Batch", !.path = path, !.old_path = <<>>,
                  !.did_read = FALSE, !.read = <<>>, !.cached = <<>>,
                  !.prev = Get(PREV_STATE, path),
                  !.lastop = Get(LAST_OPERATION, path),
                  !.before = Get(chain, path),
                  !.old_tracked = FALSE, !.old_lastop = <<>>, !.old_prev = <<>>,
                  !.clock = GLOBAL_CLOCK, !.ops = <<>>, !.suppressed = TRUE,
                  !.append = "none"]
    /\ UNCHANGED <<PREV_STATE, LAST_OPERATION, GLOBAL_CLOCK, FILE_HASH_CACHE,
                   TEMP_CONTENT_CACHE, FILE_POOL, LAST_RENAME_SOURCE, DISABLE_RAPID_MODE, sync_mgr,
                   next_uuid, oplog, published, pump, chain, lamports,
                   rx, sent, emitted, beyond_watcher>>

\* The same batch but for its last event: the next event on the path draws the
\* last number inside the window.
SuppressedBatchButLast(path) ==
    /\ pump = "running"
    /\ ~DISABLE_RAPID_MODE
    /\ ~is_temp_path(path) /\ should_track(path)
    /\ path \in DOMAIN FILE_HASH_CACHE
    /\ RAPID_SEQUENCE - FILE_HASH_CACHE[path] < RAPID_WINDOW - 1
    /\ SeqOk(FILE_HASH_CACHE[path] + RAPID_WINDOW - 1)
    /\ RAPID_SEQUENCE' = FILE_HASH_CACHE[path] + RAPID_WINDOW - 1
    /\ last' = [last EXCEPT !.kind = "Batch", !.path = path, !.old_path = <<>>,
                  !.did_read = FALSE, !.read = <<>>, !.cached = <<>>,
                  !.prev = Get(PREV_STATE, path),
                  !.lastop = Get(LAST_OPERATION, path),
                  !.before = Get(chain, path),
                  !.old_tracked = FALSE, !.old_lastop = <<>>, !.old_prev = <<>>,
                  !.clock = GLOBAL_CLOCK, !.ops = <<>>, !.suppressed = TRUE,
                  !.append = "none"]
    /\ UNCHANGED <<PREV_STATE, LAST_OPERATION, GLOBAL_CLOCK, FILE_HASH_CACHE,
                   TEMP_CONTENT_CACHE, FILE_POOL, LAST_RENAME_SOURCE, DISABLE_RAPID_MODE, sync_mgr,
                   next_uuid, oplog, published, pump, chain, lamports,
                   rx, sent, emitted, beyond_watcher>>

\* Time passes while a rename source is pending, longer than any window a
\* rename-to is expected in.  LAST_RENAME_SOURCE is an Option<PathBuf> behind a
\* mutex: it holds no time and nothing in the loop looks at a clock, so the
\* pump's state stays as it is.  History only: last names the source.
DeadlineExpires ==
    /\ pump = "running"
    /\ LAST_RENAME_SOURCE # <<>>
    /\ last.kind # "Expired"
    /\ last' = [last EXCEPT !.kind = "Expired", !.path = LAST_RENAME_SOURCE[1],
                  !.old_path = <<>>, !.did_read = FALSE, !.read = <<>>, !.cached = <<>>,
                  !.prev = <<>>, !.lastop = <<>>, !.before = <<>>,
                  !.old_tracked = FALSE, !.old_lastop = <<>>, !.old_prev = <<>>,
                  !.clock = GLOBAL_CLOCK, !.ops = <<>>, !.suppressed = FALSE,
                  !.append = "none"]
    /\ UNCHANGED <<PREV_STATE, LAST_OPERATION, GLOBAL_CLOCK, RAPID_SEQUENCE,
                   FILE_HASH_CACHE, TEMP_CONTENT_CACHE, FILE_POOL, LAST_RENAME_SOURCE,
                   DISABLE_RAPID_MODE, sync_mgr, next_uuid, oplog, published, pump,
                   chain, lamports, rx, sent, emitted, beyond_watcher>>

\* what recv finds behind the waiting events once every Sender is dropped:
\* the channel is disconnected
Hangup == [kind |-> "Disconnected", path |-> <<>>, n |-> 0]

\* the debouncer, and with it the only Sender, is gone
SourceClosed == pump = "stopped" \/ (rx # <<>> /\ rx[Len(rx)] = Hangup)

\* `while let Ok(result) = rx.recv()` for ever: Err(RecvError) does not end it
loop_ends_never(received) == FALSE

\* `while let Ok(result) = rx.recv()`: recv answers Err(RecvError) when the
\* channel is disconnected and no event waits, and the loop ends
loop_ends(received) == received = Hangup

\* The debouncer delivers an event: tx.send on the channel start_debounced_watcher
\* created.
Notify(kind, path) ==
    /\ ~SourceClosed
    /\ Len(rx) < MaxQueued
    /\ sent < MaxSent
    /\ rx' = send(rx, [kind |-> kind, path |-> path, n |-> sent + 1])
    /\ sent' = sent + 1
    /\ UNCHANGED <<detector_vars, emitted, beyond_watcher>>

\* The event source closes: the debouncer's thread ends and drops the Sender.
Close ==
    /\ ~SourceClosed
    /\ rx' = Append(rx, Hangup)
    /\ UNCHANGED <<detector_vars, sent, emitted, beyond_watcher>>

\* process_events_loop: rx.recv() returns Err, the loop ends, Ok(()) is returned
RecvDisconnected ==
    /\ pump = "running"
    /\ rx # <<>>
    /\ loop_ends(recv(rx).event)
    /\ pump' = "stopped"
    /\ rx' = recv(rx).rest
    /\ UNCHANGED <<PREV_STATE, LAST_OPERATION, GLOBAL_CLOCK, RAPID_SEQUENCE,
                   FILE_HASH_CACHE, TEMP_CONTENT_CACHE, FILE_POOL, LAST_RENAME_SOURCE,
                   DISABLE_RAPID_MODE, sync_mgr, next_uuid, oplog, published,
                   chain, lamports, last, sent, emitted, beyond_watcher>>

\* process_events_loop: rx.recv() returns a Modify event
RecvModify(read, results, max_ops) ==
    /\ rx # <<>>
    /\ recv(rx).event.kind = "Modify"
    /\ ModifyEvent(recv(rx).event.path, read, FALSE, results, max_ops)

\* process_events_loop: rx.recv() returns a Remove event
RecvRemove(results, max_ops) ==
    /\ rx # <<>>
    /\ recv(rx).event.kind = "Remove"
    /\ RemoveEvent(recv(rx).event.path, results, max_ops)

\* ---------------------------------------------------------- specifications
\* Edits, removals and renames of two tracked files, in both detector modes.
ChainPaths == {FileA, FileB}

Init == InitWith(BOOLEAN, {TRUE})

Next ==
    \/ \E p \in ChainPaths, r \in Reads(PumpContents), d \in BOOLEAN :
          ModifyEvent(p, r, d, Stored, MaxOps)
    \/ \E p \in ChainPaths, r \in Reads(PumpContents) :
          CreateEvent(p, r, FALSE, Stored, MaxOps)
    \/ \E p \in ChainPaths : RemoveEvent(p, Stored, MaxOps)
    \/ \E o \in ChainPaths : \E n \in ChainPaths \ {o}, r \in Reads(PumpContents) :
          RenameBothEvent(o, n, r, FALSE, Stored, MaxOps)
    \/ \E p \in ChainPaths : SuppressedBatch(p)

Spec == Init /\ [][Next]_vars

\* One tracked file observed with every content of DiffContents.
InitDiff == InitWith(BOOLEAN, {TRUE})

NextDiff ==
    \/ \E r \in Reads(DiffContents) : ModifyEvent(FileA, r, FALSE, Stored, MaxOps)
    \/ SuppressedBatch(FileA)

SpecDiff == InitDiff /\ [][NextDiff]_vars

\* An editor's atomic save: the temp file is written, then renamed onto a
\* tracked file.
InitSave == InitWith(BOOLEAN, {TRUE})

NextSave ==
    \/ \E p \in {FileA, TempA}, r \in Reads(SaveContents) :
          ModifyEvent(p, r, FALSE, Stored, MaxOps)
    \/ \E r \in Reads(SaveContents) : RenameFromEvent(TempA, r)
    \/ \E r \in Reads(SaveContents) : RenameToEvent(<<FileA>>, r, FALSE, Stored, MaxOps)
    \/ \E r \in Reads(SaveContents) : RenameBothEvent(TempA, FileA, r, FALSE, Stored, MaxOps)
    \/ SuppressedBatch(FileA)

SpecSave == InitSave /\ [][NextSave]_vars

\* One tracked file and a log that may refuse or fail an append, with and
\* without a SyncManager.
InitSink == InitWith(BOOLEAN, BOOLEAN)

NextSink ==
    \/ \E r \in Reads(PumpContents) : ModifyEvent(FileA, r, FALSE, AppendResults, MaxOps)
    \/ RemoveEvent(FileA, AppendResults, MaxOps)
    \/ SuppressedBatch(FileA)

SpecSink == InitSink /\ [][NextSink]_vars

\* Three tracked files, more than the snapshot store keeps: edits, removals
\* and renames that make the store evict, under the quality detector.
EvictPaths == {FileA, FileB, FileC}

\* every read succeeds: "a" or "ab"
EvictReads == {<<c>> : c \in PumpContents}

InitEvict == InitWith({TRUE}, {TRUE})

NextEvict ==
    \/ \E p \in EvictPaths, r \in EvictReads :
          ModifyEvent(p, r, FALSE, Stored, MaxChurnOps)
    \/ \E p \in EvictPaths : RemoveEvent(p, Stored, MaxChurnOps)
    \/ \E o \in EvictPaths : \E n \in EvictPaths \ {o}, r \in EvictReads :
          RenameBothEvent(o, n, r, FALSE, Stored, MaxChurnOps)

SpecEvict == InitEvict /\ [][NextEvict]_vars

\* Three tracked files that come and go in both detector modes: first
\* sightings, removals, contents over the size limit, evictions.
AbsentReads == {<<>>, <<<<97>>>>, <<Oversize>>}

InitAbsent == InitWith(BOOLEAN, {TRUE})

\* the rapid detector is explored on two of the files
AbsentPaths == IF DISABLE_RAPID_MODE THEN EvictPaths ELSE {FileA, FileB}

\* reads of FileA may fail
AbsentReadsOf(path) == IF path = FileA THEN AbsentReads ELSE AbsentReads \ {<<>>}

NextAbsent ==
    \/ \E p \in AbsentPaths : \E r \in AbsentReadsOf(p) :
          ModifyEvent(p, r, FALSE, Stored, MaxChurnOps)
    \/ \E p \in AbsentPaths : RemoveEvent(p, Stored, MaxChurnOps)
    \/ \E p \in AbsentPaths : SuppressedBatch(p)

SpecAbsent == InitAbsent /\ [][NextAbsent]_vars

\* A tracked file, a temp file and a file under an ignored directory: every
\* kind of event on each, renames between any two of them.
MixedPaths == {FileA, TempA, GitA}

MixedReads == Reads({<<97>>})

InitMixed == InitWith({TRUE}, {TRUE})

NextMixed ==
    \/ \E p \in MixedPaths, r \in MixedReads : ModifyEvent(p, r, FALSE, Stored, MaxOps)
    \/ \E p \in MixedPaths, r \in MixedReads : CreateEvent(p, r, FALSE, Stored, MaxOps)
    \/ \E p \in MixedPaths : RemoveEvent(p, Stored, MaxOps)
    \/ \E p \in MixedPaths, r \in MixedReads : RenameFromEvent(p, r)
    \/ \E p \in MixedPaths, r \in MixedReads :
          RenameToEvent(<<p>>, r, FALSE, Stored, MaxOps)
    \/ \E o \in MixedPaths, n \in MixedPaths, r \in MixedReads :
          RenameBothEvent(o, n, r, FALSE, Stored, MaxOps)

SpecMixed == InitMixed /\ [][NextMixed]_vars

\* More tracked files than the snapshot store keeps and more temp files than
\* the temp cache keeps.  Files are written and removed, temp files
\* written and renamed onto a tracked file.
BoundFiles == {FileA, FileB, FileC}
BoundTemps == {TempA, TempB}
BoundReads == {<<<<97>>>>}

InitBound == InitWith({TRUE}, {TRUE})

NextBound ==
    \/ \E p \in BoundFiles \cup BoundTemps, r \in BoundReads :
          ModifyEvent(p, r, FALSE, Stored, MaxOps)
    \/ \E p \in BoundFiles : RemoveEvent(p, Stored, MaxOps)
    \/ \E r \in BoundReads : RenameFromEvent(TempA, r)
    \/ \E o \in BoundTemps :
          \E n \in BoundFiles, r \in BoundReads :
             RenameBothEvent(o, n, r, FALSE, Stored, MaxOps)

SpecBound == InitBound /\ [][NextBound]_vars

\* The debouncer's thread sends events while the loop receives and handles them.
QueuePaths == {FileA, FileB}
QueueKinds == {"Modify", "Remove"}

InitQueue == InitWith({TRUE}, {TRUE})

NextQueue ==
    \/ \E k \in QueueKinds, p \in QueuePaths : Notify(k, p)
    \/ \E r \in EvictReads : RecvModify(r, Stored, MaxOps)
    \/ RecvRemove(Stored, MaxOps)

SpecQueue == InitQueue /\ [][NextQueue]_vars

\* An event source that can close: Modify events of a temp file and Remove
\* events of tracked files are sent until it does.  The loop runs on its own
\* thread and every handler returns: a receive that is possible is taken.
CloseEvents == {<<"Modify", TempA>>, <<"Remove", FileA>>, <<"Remove", FileB>>}

Receive ==
    \/ \E r \in EvictReads : RecvModify(r, Stored, MaxChurnOps)
    \/ RecvRemove(Stored, MaxChurnOps)
    \/ RecvDisconnected

NextClose ==
    \/ \E e \in CloseEvents : Notify(e[1], e[2])
    \/ Close
    \/ \E r \in EvictReads : RecvModify(r, Stored, MaxChurnOps)
    \/ RecvRemove(Stored, MaxChurnOps)
    \/ RecvDisconnected

SpecClose == InitQueue /\ [][NextClose]_vars /\ WF_vars(Receive)

\* Path classification: events on paths of one or two components, one of
\* them a reserved name in several spellings, a name that contains a reserved
\* name, or an ordinary name.
ClassComponents ==
    { <<".", "g", "i", "t">>,
      <<".", "G", "i", "t">>,
      <<".", "G", "I", "T">>,
      <<".", "g", "i", "t", "i", "g", "n", "o", "r", "e">>,
      <<"t", "a", "r", "g", "e", "t">>,
      <<"T", "A", "R", "G", "E", "T">>,
      <<"t", "a", "r", "g", "e", "t", "_", "a", "p", "i">>,
      <<"s", "r", "c">>,
      <<".", "d", "x">>,
      <<".", "d", "x", "_", "c", "l", "i", "e", "n", "t">>,
      <<"n", "o", "d", "e", "_", "m", "o", "d", "u", "l", "e", "s">>,
      <<"N", "o", "d", "e", "_", "M", "o", "d", "u", "l", "e", "s">>,
      <<"a">> }

ClassPaths == {<<c>> : c \in ClassComponents}
                 \cup {<<c, <<"a">> >> : c \in ClassComponents}
                 \cup {<< <<"s", "r", "c">>, c>> : c \in ClassComponents}

InitClass == InitWith({TRUE}, {TRUE})

NextClass ==
    \/ \E p \in ClassPaths : ModifyEvent(p, <<<<97>>>>, FALSE, Stored, MaxClassOps)
    \/ \E p \in ClassPaths : RemoveEvent(p, Stored, MaxClassOps)

SpecClass == InitClass /\ [][NextClass]_vars
\* The API server with two clients.  The runtime schedules every task: a
\* handler that can subscribe does, a message that can be read or forwarded is.
InitServer == InitWith({TRUE}, {TRUE})

NextServer ==
    \/ \E c \in Clients : Upgrade(c)
    \/ \E c \in Clients : Subscribe(c)
    \/ \E c \in Clients, id \in OpIds : ClientSend(c, id)
    \/ \E c \in Clients : ServerReceive(c)
    \/ \E c \in Clients : Forward(c)

ServerFairness ==
    \A c \in Clients :
       WF_vars(Subscribe(c)) /\ WF_vars(ServerReceive(c)) /\ WF_vars(Forward(c))

SpecServer == InitServer /\ [][NextServer]_vars /\ ServerFairness

\* The orchestrator: tools are registered, execute_all is called.
InitOrchestrator == InitWith({TRUE}, {TRUE})

NextOrchestrator ==
    \/ \E tool \in Tools : register_tool(tool)
    \/ execute_all

SpecOrchestrator == InitOrchestrator /\ [][NextOrchestrator]_vars

\* Two tracked files written, created and removed with the rapid detector on.
RapidPaths == {FileA, FileB}

\* a read fails or returns "a"
RapidReads == Reads({<<97>>})

InitRapid == InitWith({FALSE}, {TRUE})

NextRapid ==
    \/ \E p \in RapidPaths, r \in RapidReads : ModifyEvent(p, r, FALSE, Stored, MaxOps)
    \/ \E p \in RapidPaths, r \in RapidReads : CreateEvent(p, r, FALSE, Stored, MaxOps)
    \/ \E p \in RapidPaths : RemoveEvent(p, Stored, MaxOps)
    \/ \E p \in RapidPaths : SuppressedBatch(p)
    \/ \E p \in RapidPaths : SuppressedBatchButLast(p)

SpecRapid == InitRapid /\ [][NextRapid]_vars

\* Renames reported in two halves, rename-from then rename-to with the new
\* path alone, with edits and pauses in between.
RenamePaths == {FileA, FileB, TempA}

RenameReads == {<<<<97>>>>}

InitRename == InitWith({TRUE}, {TRUE})

NextRename ==
    \/ \E p \in RenamePaths, r \in RenameReads : ModifyEvent(p, r, FALSE, Stored, MaxOps)
    \/ \E p \in RenamePaths, r \in RenameReads : RenameFromEvent(p, r)
    \/ \E p \in RenamePaths, r \in RenameReads :
          RenameToEvent(<<p>>, r, FALSE, Stored, MaxOps)
    \/ DeadlineExpires

SpecRename == InitRename /\ [][NextRename]_vars

\* The peer bridge with a local publisher and a remote that sends what it likes.
InitBridge == InitWith({TRUE}, {TRUE})

NextBridge ==
    \/ \E id \in LocalIds : LocalPublish(id)
    \/ \E op \in [actor_id : Actors, id : LocalIds \cup RemoteIds] : RemoteMessage(op)
    \/ ForwardReceive
    \/ \E is_err \in BOOLEAN : ForwardSend(is_err)
    \/ ReceiveNext
    \/ ReceiveApply

SpecBridge == InitBridge /\ [][NextBridge]_vars

\* An editor sending change events for two documents, in any version order,
\* process_change calls overlapping.
InitLsp == InitWith({TRUE}, {TRUE})

NextLsp ==
    \/ \E uri \in Uris, version \in Versions : process_change(uri, version)
    \/ \E event \in Uris \X Versions, outcome \in {"Ok", "Err"} :
          convert_and_store(event, outcome)

SpecLsp == InitLsp /\ [][NextLsp]_vars

\* with_retry called with any policy and an operation that fails or succeeds
\* as it likes.  The operation returns and the sleep ends: the loop goes on.
InitRetry == InitWith({TRUE}, {TRUE})

NextRetry ==
    \/ \E policy \in RetryPolicies : CallWithRetry(policy)
    \/ \E result \in {"Ok", "Err"} : Attempt(result)
    \/ Backoff

RetryRuns == WF_vars(\E result \in {"Ok", "Err"} : Attempt(result)) /\ WF_vars(Backoff)

SpecRetry == InitRetry /\ [][NextRetry]_vars /\ RetryRuns

\* ------------------------------------------------------------------ claims
\* A content that no file holds: the result of an operation that does not fit
\* the content it is applied to.
Misapplied == <<-1>>

\* the content after op is applied at its character offset
ApplyOp(op, content) ==
    LET cs == Chars(content)
        n == Len(cs)
        k == chars_count(op.old_content)
    IN  IF op.kind = "Insert"
        THEN IF op.offset <= n
             THEN Flatten(SubSeq(cs, 1, op.offset)) \o op.content
                    \o Flatten(SubSeq(cs, op.offset + 1, n))
             ELSE Misapplied
        ELSE IF op.kind = "Delete"
        THEN IF op.offset + op.length <= n
             THEN Flatten(SubSeq(cs, 1, op.offset))
                    \o Flatten(SubSeq(cs, op.offset + op.length + 1, n))
             ELSE Misapplied
        ELSE IF op.kind = "Replace"
        THEN IF op.offset + k <= n
                /\ Flatten(SubSeq(cs, op.offset + 1, op.offset + k)) = op.old_content
             THEN Flatten(SubSeq(cs, 1, op.offset)) \o op.new_content
                    \o Flatten(SubSeq(cs, op.offset + k + 1, n))
             ELSE Misapplied
        ELSE content

RECURSIVE ApplyOps(_, _)
ApplyOps(ops, content) ==
    IF ops = <<>> THEN content
    ELSE ApplyOps(Tail(ops), ApplyOp(Head(ops), content))

\* the last event read content N for a file (not a directory) whose snapshot
\* held O
Observed ==
    /\ last.kind = "Path"
    /\ last.did_read
    /\ last.read # <<>>
    /\ last.prev # <<>>
    /\ pump # "panicked"

ObservedOld == last.prev[1].content

ObservedNew == last.read[1]

\* C1 (diff correctness): when a tracked file whose snapshot holds O is observed
\* with content N # O (N within the size limit), the operations emitted for the
\* event, applied in order to O, yield exactly N.
C1_DiffCorrectness ==
    (Observed /\ ObservedNew # ObservedOld
       /\ Len(ObservedNew) <= MAX_TRACKED_FILE_BYTES)
    => ApplyOps(last.ops, ObservedOld) = ObservedNew

\* C6 (append fast-path equivalence): observing C -> C + S for a non-empty S
\* emits exactly one operation, an Insert with content S, length the number of
\* characters of S and offset the number of characters of C.
C6_AppendFastPath ==
    (Observed /\ Len(ObservedNew) > Len(ObservedOld)
       /\ starts_with(ObservedNew, ObservedOld))
    => /\ Len(last.ops) = 1
       /\ last.ops[1].kind = "Insert"
       /\ last.ops[1].content = Slice(ObservedNew, Len(ObservedOld), Len(ObservedNew))
       /\ last.ops[1].length =
            chars_count(Slice(ObservedNew, Len(ObservedOld), Len(ObservedNew)))
       /\ last.ops[1].offset = chars_count(ObservedOld)

\* an append of a two-byte character to a two-byte character, by the rapid
\* detector's append path
C6_Witness ==
    /\ Observed
    /\ ~DISABLE_RAPID_MODE
    /\ ObservedOld = <<195, 169>>
    /\ ObservedNew = <<195, 169, 195, 168>>
    /\ Len(last.ops) = 1
    /\ last.ops[1].offset = 1

\* C7 (identity idempotence): observing a tracked file whose bytes equal its
\* snapshot emits no operation and leaves the snapshot, the LastOperation entry
\* and the clock as they were.
C7_IdentityIdempotence ==
    (Observed /\ ObservedNew = ObservedOld)
    => /\ last.ops = <<>>
       /\ Get(PREV_STATE, last.path) = last.prev
       /\ Get(LAST_OPERATION, last.path) = last.lastop
       /\ GLOBAL_CLOCK = last.clock

\* an unchanged file observed after an edit of it was emitted
C7_Witness ==
    /\ Observed
    /\ ObservedNew = ObservedOld
    /\ GLOBAL_CLOCK > 0
    /\ last.lastop # <<>>

\* the one contiguous change between O and N, in characters: <<offset, removed,
\* inserted>>
ChangedSegment(old, new) ==
    LET oc == Chars(old)
        nc == Chars(new)
        p == common_prefix(oc, nc)
        s == Min2(common_suffix(SubSeq(oc, p + 1, Len(oc)), SubSeq(nc, p + 1, Len(nc))),
                  Min2(Len(oc) - p, Len(nc) - p))
    IN  <<p, Flatten(SubSeq(oc, p + 1, Len(oc) - s)),
             Flatten(SubSeq(nc, p + 1, Len(nc) - s))>>

\* C8 (mid-string replace): when O and N differ in one contiguous segment whose
\* removed text and inserted text are both non-empty, exactly one Replace is
\* emitted, its offset the character count of the common prefix, its old and
\* new content the removed and the inserted segment.
C8_MidStringReplace ==
    (Observed /\ ObservedNew # ObservedOld
       /\ Len(ObservedNew) <= MAX_TRACKED_FILE_BYTES
       /\ ChangedSegment(ObservedOld, ObservedNew)[2] # <<>>
       /\ ChangedSegment(ObservedOld, ObservedNew)[3] # <<>>)
    => /\ Len(last.ops) = 1
       /\ last.ops[1].kind = "Replace"
       /\ last.ops[1].offset = ChangedSegment(ObservedOld, ObservedNew)[1]
       /\ last.ops[1].old_content = ChangedSegment(ObservedOld, ObservedNew)[2]
       /\ last.ops[1].new_content = ChangedSegment(ObservedOld, ObservedNew)[3]
\* C2 (per-file causal chain): an operation's parent_ops is exactly the id of the
\* operation emitted before it for the same path; it is empty for the first
\* operation of a path and after a FileDelete of the path.  Where the claim can
\* be read either way (the FileDelete or FileRename itself, an operation after a
\* FileRename, after an eviction or after the path was renamed away) both
\* readings are accepted.
C2_CausalChain ==
    (last.ops # <<>> /\ last.ops[1].kind # "FileRename")
    => IF last.before = <<>> THEN last.ops[1].parent_ops = {}
       ELSE IF last.before[1].kind = "FileDelete" THEN last.ops[1].parent_ops = {}
       ELSE IF last.before[1].reset \/ last.before[1].kind = "FileRename"
               \/ last.ops[1].kind = "FileDelete"
       THEN last.ops[1].parent_ops \in {{}, {last.before[1].id}}
       ELSE last.ops[1].parent_ops = {last.before[1].id}

\* C3 (no edit lost between consecutive writes): after the write that emitted
\* FileCreate, the next write to the file that changes its content emits its
\* operation -- for an append the Insert of the appended text at the end of the
\* old content -- however few events arrived in between.
C3_NoEditLost ==
    (/\ last.kind = "Path"
     /\ last.read # <<>>
     /\ last.prev # <<>>
     /\ last.before # <<>>
     /\ last.before[1].kind = "FileCreate"
     /\ last.read[1] # last.prev[1].content)
    => /\ Len(last.ops) = 1
       /\ starts_with(last.read[1], last.prev[1].content)
            => /\ last.ops[1].kind = "Insert"
               /\ last.ops[1].offset = chars_count(last.prev[1].content)
               /\ last.ops[1].content =
                    Slice(last.read[1], Len(last.prev[1].content), Len(last.read[1]))

\* C5 (Lamport monotonicity): of two operations that carry a Position, the one
\* emitted later has the strictly greater lamport.
C5_LamportMonotonicity ==
    \A i \in 1..Len(lamports) : \A j \in 1..Len(lamports) :
        i < j => lamports[i] < lamports[j]

\* two positioned operations emitted by the rapid detector
C5_Witness ==
    /\ ~DISABLE_RAPID_MODE
    /\ Len(lamports) >= 2
    /\ last.ops # <<>>
    /\ HasPosition(last.ops[1])

\* the last event renamed a tracked, non-temp file onto a trackable non-temp path
TrackedRename ==
    /\ last.kind = "Rename"
    /\ last.old_tracked
    /\ ~is_temp_path(last.old_path) /\ should_track(last.old_path)
    /\ ~is_temp_path(last.path) /\ should_track(last.path)

\* C10 as stated (rename preservation): the id LastOperation held for old before
\* the rename is the id it holds for new afterwards, and exactly one FileRename
\* is emitted.
C10_RenamePreservation ==
    (TrackedRename /\ last.old_path # last.path)
    => /\ Get(LAST_OPERATION, last.path) = last.old_lastop
       /\ Len(last.ops) = 1
       /\ last.ops[1].kind = "FileRename"

\* C10 amended: exactly one FileRename old -> new is emitted; its parent_ops is
\* exactly the id LastOperation held for old before the rename; afterwards
\* LastOperation holds the FileRename's own id for new and, when old # new, no
\* entry for old.
C10_RenameCarriesChain ==
    TrackedRename
    => /\ Len(last.ops) = 1
       /\ last.ops[1].kind = "FileRename"
       /\ last.ops[1].old_path = last.old_path
       /\ last.ops[1].new_path = last.path
       /\ last.old_lastop # <<>>
       /\ last.ops[1].parent_ops = {last.old_lastop[1]}
       /\ Get(LAST_OPERATION, last.path) = <<last.ops[1].id>>
       /\ last.old_path # last.path => last.old_path \notin DOMAIN LAST_OPERATION

\* a file with two operations renamed onto the path of another tracked file
C10_Witness ==
    /\ TrackedRename
    /\ last.old_path # last.path
    /\ last.lastop # <<>>
    /\ last.ops # <<>>
    /\ last.ops[1].kind = "FileRename"
    /\ last.ops[1].parent_ops = {2}

\* C4 (append happens-before publish): an operation is on the broadcast channel
\* only if the log's append of it returned true; one whose append returned false
\* or failed is never published.
C4_AppendBeforePublish ==
    /\ \A i \in 1..Len(published) : published[i] \in oplog
    /\ (last.ops # <<>> /\ last.append \in {"duplicate", "error"})
         => \A i \in 1..Len(published) : published[i] # last.ops[1].id

\* with a SyncManager attached: one operation published, the next one refused
\* by the log
C4_Witness ==
    /\ sync_mgr
    /\ Len(published) = 1
    /\ last.ops # <<>>
    /\ last.append = "duplicate"
    /\ last.ops[1].id \notin oplog

\* the last event renamed a temp file whose content was cached onto a tracked
\* file that has a snapshot
TempSave ==
    /\ last.kind = "Rename"
    /\ is_temp_path(last.old_path)
    /\ ~is_temp_path(last.path) /\ should_track(last.path)
    /\ last.prev # <<>>
    /\ last.cached # <<>>
    /\ pump # "panicked"

\* C9 (temp-save collapse): when a temp file T is written and renamed onto the
\* tracked file F, the only operation emitted is a single Insert, Delete or
\* Replace for F that takes F's snapshot to T's content; no FileCreate and no
\* operation under T's name is emitted.
C9_TempSaveCollapse ==
    TempSave
    => /\ Len(last.ops) <= 1
       /\ \A i \in 1..Len(last.ops) :
            HasPosition(last.ops[i]) /\ last.ops[i].file_path = last.path
       /\ last.cached[1] # last.prev[1].content
            => /\ Len(last.ops) = 1
               /\ ApplyOps(last.ops, last.prev[1].content) = last.cached[1]

\* C9 for ASCII contents, which the diff takes to T's content
C9_AsciiSave ==
    TempSave
    => /\ Len(last.ops) <= 1
       /\ \A i \in 1..Len(last.ops) :
            HasPosition(last.ops[i]) /\ last.ops[i].file_path = last.path
       /\ (last.cached[1] # last.prev[1].content /\ is_ascii(last.cached[1])
             /\ is_ascii(last.prev[1].content))
            => /\ Len(last.ops) = 1
               /\ ApplyOps(last.ops, last.prev[1].content) = last.cached[1]

\* the last event renamed a non-temp trackable file that had a snapshot onto a
\* non-temp trackable path
RenamedWithSnapshot ==
    /\ TrackedRename
    /\ last.old_prev # <<>>

\* the last event emitted an operation for a path whose previous operation was
\* the FileRename that brought a snapshot to it, the path not having been
\* renamed away or evicted since
AfterRename ==
    /\ last.kind = "Path"
    /\ last.ops # <<>>
    /\ last.before # <<>>
    /\ last.before[1].kind = "FileRename"
    /\ last.before[1].moved # <<>>
    /\ ~last.before[1].reset

AbsentObserved ==
    /\ last.kind = "Path"
    /\ last.did_read
    /\ last.read # <<>>
    /\ last.prev = <<>>
    /\ Len(last.read[1]) <= MAX_TRACKED_FILE_BYTES
    /\ ~is_temp_path(last.path) /\ should_track(last.path)

C13_OversizeDropped ==
    /\ (/\ last.kind = "Path"
        /\ last.did_read
        /\ last.read # <<>>
        /\ Len(last.read[1]) > MAX_TRACKED_FILE_BYTES
        /\ pump # "panicked")
         => /\ last.ops = <<>>
            /\ last.path \notin DOMAIN PREV_STATE
    /\ \A p \in DOMAIN PREV_STATE :
          Len(PREV_STATE[p].content) <= MAX_TRACKED_FILE_BYTES

\* the last event tried to read its file and the read failed (the file
\* vanished, permission was denied, or the bytes are not UTF-8)
ReadFailed ==
    /\ last.kind = "Path"
    /\ last.did_read
    /\ last.read = <<>>

\* C14 (skipped events leave state untouched): when the read of the file
\* fails, no operation is emitted, the snapshot and the LastOperation entry of
\* the path and the Lamport clock are as before the event, and the pump keeps
\* running.
C14_SkippedEventUntouched ==
    ReadFailed
    => /\ last.ops = <<>>
       /\ Get(PREV_STATE, last.path) = last.prev
       /\ Get(LAST_OPERATION, last.path) = last.lastop
       /\ GLOBAL_CLOCK = last.clock
       /\ pump = "running"

\* the read of a file that has a snapshot and two operations fails
C14_Witness ==
    /\ ReadFailed
    /\ last.prev # <<>>
    /\ last.lastop # <<>>
    /\ last.clock > 0

\* C15 (append failure does not stop the pump): when the log's append of an
\* operation returns an error, the pump goes on to the next event.
C15_PumpSurvivesAppendFailure ==
    (last.ops # <<>> /\ last.append = "error") => pump = "running"

\* C16 (ignored path invariance): no operation is emitted whose file_path, or
\* whose FileRename old_path or new_path, has a component in the ignore set,
\* and no snapshot is stored for such a path.
C16_IgnoredPathInvariance ==
    /\ \A i \in 1..Len(last.ops) :
          /\ is_trackable(last.ops[i].file_path)
          /\ last.ops[i].kind = "FileRename"
               => /\ is_trackable(last.ops[i].old_path)
                  /\ is_trackable(last.ops[i].new_path)
    /\ \A p \in DOMAIN PREV_STATE : is_trackable(p)

\* a tracked file is renamed into the ignored directory: a FileDelete for the
\* old path, nothing for the new one
C16_Witness ==
    /\ last.kind = "Rename"
    /\ ~is_trackable(last.path)
    /\ last.old_prev # <<>>
    /\ last.ops # <<>>
    /\ last.ops[1].kind = "FileDelete"
    /\ last.ops[1].file_path = last.old_path

\* C17 (temp files are never emitted): no operation is emitted whose file_path
\* or FileRename new_path is a temp path, and no snapshot is stored under a
\* temp path.
C17_TempNeverEmitted ==
    /\ \A i \in 1..Len(last.ops) :
          /\ ~is_temp_path(last.ops[i].file_path)
          /\ last.ops[i].kind = "FileRename" => ~is_temp_path(last.ops[i].new_path)
    /\ \A p \in DOMAIN PREV_STATE : ~is_temp_path(p)

QUEUE_CAPACITY == 2

\* C19 (queue overflow): the event channel never holds more than QUEUE_CAPACITY
\* events; a notification arriving while it is full is dropped.
C19_QueueBounded == Len(rx) <= QUEUE_CAPACITY

\* C20 (per-file emission order): of two operations on the same file, the one
\* built from the event observed first is emitted (appended, published) first.
C20_PerFileOrder ==
    /\ \A i, j \in 1..Len(emitted) :
          (i < j /\ emitted[i].file_path = emitted[j].file_path)
             => emitted[i].event < emitted[j].event
    /\ published = [i \in 1..Len(emitted) |-> emitted[i].id]

\* two events on one file waited on the channel together with an event on the
\* other file between them, and each produced an operation
C20_Witness ==
    /\ Len(emitted) >= 3
    /\ emitted[1].file_path = emitted[3].file_path
    /\ emitted[2].file_path # emitted[1].file_path
    /\ emitted[1].event >= 1
    /\ Len(published) >= 3
    /\ rx # <<>>

C22_ClockTiedToPositions ==
    GLOBAL_CLOCK = last.clock
                   + Cardinality({i \in 1..Len(last.ops) : HasPosition(last.ops[i])})

\* the reserved names of the path classifier
ReservedNames ==
    { <<".", "g", "i", "t">>,
      <<".", "d", "x">>,
      <<".", "d", "x", "_", "c", "l", "i", "e", "n", "t">>,
      <<"t", "a", "r", "g", "e", "t">>,
      <<"n", "o", "d", "e", "_", "m", "o", "d", "u", "l", "e", "s">> }

\* the ASCII letters, upper case with lower case
CasePairs ==
    {
      <<"A", "a">>, <<"B", "b">>, <<"C", "c">>, <<"D", "d">>, <<"E", "e">>, <<"F",
      "f">>, <<"G", "g">>, <<"H", "h">>, <<"I", "i">>, <<"J", "j">>, <<"K", "k">>,
      <<"L", "l">>, <<"M", "m">>, <<"N", "n">>, <<"O", "o">>, <<"P", "p">>, <<"Q",
      "q">>, <<"R", "r">>, <<"S", "s">>, <<"T", "t">>, <<"U", "u">>, <<"V", "v">>,
      <<"W", "w">>, <<"X", "x">>, <<"Y", "y">>, <<"Z", "z">> }

SameLetter(x, y) == x = y \/ <<x, y>> \in CasePairs \/ <<y, x>> \in CasePairs

\* component equals name, case-insensitively
EqualsIgnoringCase(component, name) ==
    /\ Len(component) = Len(name)
    /\ \A k \in 1..Len(name) : SameLetter(component[k], name[k])

HasReservedComponent(path) ==
    \E i \in 1..Len(path) : \E name \in ReservedNames :
       EqualsIgnoringCase(path[i], name)

C24_BroadcastToConnected ==
    \A c \in Clients, id \in OpIds :
       (<<id, c>> \in server.promised) ~> (id \in server.delivered[c])

\* what execute_all last did
Run == orchestrator.last_run

\* how often tool occurs in tools
Occurrences(tools, tool) == Cardinality({i \in 1..Len(tools) : tools[i] = tool})

\* the tools run in non-decreasing priority order, whatever the registration
\* order
InPriorityOrder ==
    \A i, j \in 1..Len(Run.executed) :
       i < j => Run.executed[i].priority <= Run.executed[j].priority

\* one ToolOutput, in execution order, for each registered tool whose
\* should_run answers true
OneOutputEach ==
    /\ Run.returned = "Ok"
    /\ \A tool \in Tools :
          Occurrences(Run.executed, tool)
             = (IF tool.should_run THEN Occurrences(Run.registered, tool) ELSE 0)
    /\ Len(Run.outputs) = Len(Run.executed)
    /\ \A i \in 1..Len(Run.outputs) : Run.outputs[i].tool = Run.executed[i].name

\* every dependency is registered, and no execute() that is reached returns Err
RunCompletes ==
    /\ \A i \in 1..Len(Run.registered) :
          Run.registered[i].dependencies
             \subseteq {Run.registered[k].name : k \in 1..Len(Run.registered)}
    /\ \A i \in 1..Len(Run.registered) :
          Run.registered[i].should_run => Run.registered[i].execute = "Ok"

\* C25 (orchestrator priority order), as stated: execute_all runs the tools in
\* non-decreasing priority order and returns exactly one ToolOutput, in
\* execution order, for each tool whose should_run returned true.
C25_PriorityOrder == Run.called => (InPriorityOrder /\ OneOutputEach)

\* C25, amended: the tools that run do so in non-decreasing priority order;
\* when every dependency is registered and no execute() fails, one ToolOutput
\* is returned for each tool whose should_run answers true, in execution
\* order; otherwise execute_all returns Err and no ToolOutput.
C25_PriorityOrderUnlessErr ==
    Run.called
    => /\ InPriorityOrder
       /\ RunCompletes => OneOutputEach
       /\ ~RunCompletes => (Run.returned = "Err" /\ Run.outputs = <<>>)

\* three tools registered against their priorities, one of them skipped
C25_Witness ==
    /\ Run.called
    /\ RunCompletes
    /\ Len(Run.registered) = 3
    /\ Run.registered[1].priority > Run.registered[3].priority
    /\ Len(Run.executed) = 2
    /\ Run.executed[1].priority < Run.executed[2].priority

\* C26 (orchestrator dependency order): when every dependency is registered,
\* every tool that executes does so after each tool its dependencies() names.
\* (Checked where it is least demanding: every tool runs, and a tool naming
\* itself is not counted.)
C26_DependencyOrder ==
    (Run.called /\ RunCompletes /\ Len(Run.executed) = Len(Run.registered))
    => \A j \in 1..Len(Run.executed) :
          \A d \in Run.executed[j].dependencies \ {Run.executed[j].name} :
             \E i \in 1..(j - 1) : Run.executed[i].name = d

\* the invocations of the operation so far that failed
FailedInvocations == {i \in 1..Len(retry.results) : retry.results[i] = "Err"}

\* C27 (bounded retry): for a policy with max_attempts >= 1, with_retry
\* invokes the operation at most max_attempts times, returns Ok on the first
\* Ok result without a further invocation, returns Err only after exactly
\* max_attempts failed invocations, and always terminates.
C27_BoundedRetry ==
    /\ [](retry.policy.max_attempts >= 1
            => /\ Len(retry.results) <= retry.policy.max_attempts
               /\ \A i \in 1..(Len(retry.results) - 1) : retry.results[i] = "Err"
               /\ retry.at = "returned Ok"
                    <=> (retry.results # <<>>
                         /\ retry.results[Len(retry.results)] = "Ok")
               /\ retry.at = "returned Err"
                    => Cardinality(FailedInvocations) = retry.policy.max_attempts)
    /\ (retry.at \in {"loop", "sleep"} /\ retry.policy.max_attempts >= 1)
          ~> (retry.at \in {"returned Ok", "returned Err", "panicked"})

\* every attempt of a three-attempt policy failed, with a backoff between them
C27_Witness ==
    /\ retry.at = "returned Err"
    /\ retry.policy.max_attempts = 3
    /\ retry.attempts = 3
    /\ retry.delay > retry.policy.initial_delay

\* the operations the last event emitted
LastEmitted == IF pump = "panicked" THEN <<>> ELSE last.ops

\* C28 (LastOperation lifecycle): after an emission for a path the index holds
\* the id of the newest operation emitted for it; after a FileDelete for a
\* path has been emitted the index holds no entry for that path; after a
\* FileRename old -> new it holds no entry for old.
C28_LastOperationLifecycle ==
    LastEmitted # <<>>
    => LET op == LastEmitted[Len(LastEmitted)]
       IN  /\ op.kind # "FileDelete"
                => Get(LAST_OPERATION, op.file_path) = <<op.id>>
           /\ op.kind = "FileDelete" => op.file_path \notin DOMAIN LAST_OPERATION
           /\ (op.kind = "FileRename" /\ op.old_path # op.new_path)
                => op.old_path \notin DOMAIN LAST_OPERATION

\* C28 without its FileDelete clause: the index follows every other emission
\* and drops the old name of a rename.
C28_ExceptDelete ==
    LastEmitted # <<>>
    => LET op == LastEmitted[Len(LastEmitted)]
       IN  /\ op.kind # "FileDelete"
                => Get(LAST_OPERATION, op.file_path) = <<op.id>>
           /\ (op.kind = "FileRename" /\ op.old_path # op.new_path)
                => op.old_path \notin DOMAIN LAST_OPERATION

\* the character offsets one past each newline of a content
OnePastNewline(content) ==
    {chars_count(SubSeq(content, 1, i)) : i \in {j \in 1..Len(content) : content[j] = NL}}

\* the four invariants of a snapshot
SnapshotLengths(snapshot) ==
    /\ snapshot.byte_len = Len(snapshot.content)
    /\ snapshot.char_len = chars_count(snapshot.content)

SnapshotMapping(snapshot) ==
    LET map == snapshot.char_to_byte
    IN  /\ Len(map) \in {0, snapshot.char_len + 1}
        /\ map = <<>> => is_ascii(snapshot.content)
        /\ map # <<>>
             => /\ \A i \in 1..(Len(map) - 1) : map[i] < map[i + 1]
                /\ map[Len(map)] = snapshot.byte_len

SnapshotLines(snapshot) ==
    LET starts == snapshot.line_starts
    IN  /\ starts # <<>>
        /\ starts[1] = 0
        /\ \A i \in 2..Len(starts) : starts[i] \in OnePastNewline(snapshot.content)

\* C29 (snapshot invariants): every snapshot in the store has byte_len and
\* char_len equal to its content's byte length and code-point count, a
\* char_to_byte of length 0 or char_len + 1 that is empty only for ASCII
\* content and otherwise ascending and ending in byte_len, and line_starts
\* beginning with 0 and holding otherwise only offsets one past a newline.
C29_SnapshotInvariants ==
    \A path \in DOMAIN PREV_STATE :
        /\ SnapshotLengths(PREV_STATE[path])
        /\ SnapshotMapping(PREV_STATE[path])
        /\ SnapshotLines(PREV_STATE[path])

\* C29 with rapid mode disabled: no minimal build is ever stored
C29_QualityMode == DISABLE_RAPID_MODE => C29_SnapshotInvariants

\* the lengths are kept by every producer
C29_Lengths == \A path \in DOMAIN PREV_STATE : SnapshotLengths(PREV_STATE[path])

\* the step handles the first observation of a file: update_prev_state inserts
\* its snapshot into a store of `before` entries
InsertsSnapshot ==
    /\ last'.kind = "Path"
    /\ last'.did_read
    /\ last'.prev = <<>>
    /\ last'.ops # <<>>
    /\ last'.ops[1].kind = "FileCreate"

StoreSize == Cardinality(DOMAIN PREV_STATE)

RapidStep == last'.kind = "Path" /\ ~DISABLE_RAPID_MODE

\* the rapid cache holds for the path a number fewer than RAPID_WINDOW below
\* the number the next event draws
InWindow(path) ==
    /\ path \in DOMAIN FILE_HASH_CACHE
    /\ RAPID_SEQUENCE - FILE_HASH_CACHE[path] < RAPID_WINDOW

\* C31 (rapid dedupe window): with rapid mode enabled, a created or modified
\* event on a trackable file is suppressed (no read, nothing emitted, no
\* snapshot changed) exactly when the rapid cache holds for its path a number
\* fewer than RAPID_WINDOW below the event's own; every such event, on
\* whichever path, draws the next number of the one counter; a suppressed
\* event leaves the cached number alone, an event that passes caches its own.
C31_RapidDedupeWindow ==
    [][RapidStep
         => /\ RAPID_SEQUENCE' = RAPID_SEQUENCE + 1
            /\ last'.suppressed <=> InWindow(last'.path)
            /\ last'.suppressed
                 => /\ ~last'.did_read
                    /\ last'.ops = <<>>
                    /\ PREV_STATE' = PREV_STATE
                    /\ LAST_OPERATION' = LAST_OPERATION
                    /\ FILE_HASH_CACHE' = FILE_HASH_CACHE
            /\ ~last'.suppressed
                 => /\ last'.did_read
                    /\ FILE_HASH_CACHE' = Insert(FILE_HASH_CACHE, last'.path, RAPID_SEQUENCE)]_vars

\* an event on a suppressed by a number cached RAPID_WINDOW - 1 events ago, one
\* of them an event on b that passed
C31_Witness ==
    /\ last.kind = "Path"
    /\ last.suppressed
    /\ last.path = FileA
    /\ FileB \in DOMAIN FILE_HASH_CACHE
    /\ FILE_HASH_CACHE[FileB] > FILE_HASH_CACHE[FileA]
    /\ RAPID_SEQUENCE - 1 - FILE_HASH_CACHE[FileA] = RAPID_WINDOW - 1

\* C32 (remove dispatch): a Remove event for a temp path leaves no
\* TEMP_CONTENT_CACHE entry for that path and emits nothing; a Remove event for
\* a trackable non-temp path emits exactly one FileDelete and leaves no
\* snapshot for that path.
C32_RemoveDispatch ==
    last.kind = "Remove"
    => /\ is_temp_path(last.path)
            => /\ last.path \notin DOMAIN TEMP_CONTENT_CACHE
               /\ last.ops = <<>>
       /\ (~is_temp_path(last.path) /\ should_track(last.path))
            => /\ Len(last.ops) = 1
               /\ last.ops[1].kind = "FileDelete"
               /\ last.ops[1].file_path = last.path
               /\ last.path \notin DOMAIN PREV_STATE

\* C32 but for the temp cache: a temp path's Remove emits nothing, a tracked
\* path's Remove emits its FileDelete and drops the snapshot.
C32_ExceptTempCache ==
    last.kind = "Remove"
    => /\ is_temp_path(last.path) => last.ops = <<>>
       /\ (~is_temp_path(last.path) /\ should_track(last.path))
            => /\ Len(last.ops) = 1
               /\ last.ops[1].kind = "FileDelete"
               /\ last.ops[1].file_path = last.path
               /\ last.path \notin DOMAIN PREV_STATE

\* C33 (rename buffer expiry): the rename buffer holds at most one pending
\* source; once the deadline of a pending rename-from has expired the source
\* is discarded, so a rename-to that arrives afterwards is not paired with it.
C33_RenameBufferExpiry ==
    /\ [](Len(LAST_RENAME_SOURCE) <= 1)
    /\ [][(last.kind = "Expired" /\ last'.kind = "Rename")
            => last'.old_path # last.path]_vars

\* the buffer never holds more than one source, and a rename-to empties it
C33_OnePendingSource ==
    /\ Len(LAST_RENAME_SOURCE) <= 1
    /\ last.kind \in {"Rename", "RenameTo"} => LAST_RENAME_SOURCE = <<>>

\* the last event was a rename transition old -> new between two paths
RenamedAway == last.kind = "Rename" /\ last.old_path # last.path

\* ... of a temp file onto a trackable non-temp path: an atomic save
AtomicSave ==
    /\ RenamedAway
    /\ is_temp_path(last.old_path)
    /\ ~is_temp_path(last.path) /\ should_track(last.path)

\* ... that emitted a FileRename: tracked -> tracked
RenamedTracked ==
    /\ RenamedAway
    /\ last.ops # <<>>
    /\ last.ops[1].kind = "FileRename"

\* the last event emitted a FileDelete; the path it names
Deleted == last.ops # <<>> /\ last.ops[1].kind = "FileDelete"

\* C34 (handle pool hygiene): after a FileDelete for a path the handle pool
\* holds no entry for it, and after a rename transition old -> new, tracked ->
\* tracked or an atomic save, it holds no entry under old.
C34_PoolHygiene ==
    /\ Deleted => last.ops[1].file_path \notin FILE_POOL
    /\ RenamedTracked => last.old_path \notin FILE_POOL
    /\ AtomicSave => last.old_path \notin FILE_POOL

\* C34 but for the atomic save: the pool drops the handle of a deleted path
\* and moves the handle of a renamed tracked path
C34_ExceptAtomicSave ==
    /\ Deleted => last.ops[1].file_path \notin FILE_POOL
    /\ RenamedTracked => last.old_path \notin FILE_POOL

\* line and column of a character offset as the specification defines them
\* over line_starts: <<line, column>>, both 1-based
LineColumn(starts, offset) ==
    IF starts = <<>> THEN <<1, offset + 1>>
    ELSE LET upto == {i \in 1..Len(starts) : starts[i] <= offset}
             at == CHOOSE i \in upto : \A j \in upto : starts[j] <= starts[i]
         IN  <<at, offset - starts[at] + 1>>

\* some line start of the snapshot lies at or before the offset
HasLine(snapshot, offset) ==
    \/ snapshot.line_starts = <<>>
    \/ \E i \in 1..Len(snapshot.line_starts) : snapshot.line_starts[i] <= offset

\* the position of an operation is the line and column of its offset in the
\* snapshot
PositionIn(op, snapshot) ==
    /\ HasLine(snapshot, op.offset)
    /\ <<op.line, op.column>> = LineColumn(snapshot.line_starts, op.offset)

\* C35 (line/column of a position): every emitted Insert, Delete or Replace
\* carries the line and column of its character offset: line = 1 + the index
\* of the largest line_starts entry <= the offset, column = offset - that
\* line start + 1, and (1, offset + 1) when line_starts is empty; on every
\* detection path.  line_starts is taken from the snapshot the file had before
\* the event or from the one it has after it, whichever fits.
C35_LineColumn ==
    (pump # "panicked" /\ last.ops # <<>> /\ HasPosition(last.ops[1]) /\ last.prev # <<>>)
    => \/ PositionIn(last.ops[1], last.prev[1])
       \/ /\ last.path \in DOMAIN PREV_STATE
          /\ PositionIn(last.ops[1], PREV_STATE[last.path])

\* C35 with rapid mode disabled: every position comes from line_col_from_snapshot
C35_QualityMode == DISABLE_RAPID_MODE => C35_LineColumn

\* the content the last event's detection worked on: the temp-cache override
\* when there was one, what read_file_fast returned otherwise
WorkedOn ==
    IF last.cached # <<>> THEN last.cached
    ELSE IF last.did_read THEN last.read
    ELSE <<>>

\* the last event ran a detection on a trackable non-temp path, with a
\* content within the size limit
Detected ==
    /\ last.kind \in {"Path", "Rename"}
    /\ ~is_temp_path(last.path) /\ should_track(last.path)
    /\ ~last.suppressed
    /\ WorkedOn # <<>>
    /\ Len(WorkedOn[1]) <= MAX_TRACKED_FILE_BYTES

\* the snapshot stored for the path holds exactly the content
Tracks(path, content) ==
    /\ path \in DOMAIN PREV_STATE
    /\ PREV_STATE[path].content = content
    /\ PREV_STATE[path].byte_len = Len(content)
    /\ PREV_STATE[path].char_len = chars_count(content)

C36_UnlessPanicked == (Detected /\ pump # "panicked") => Tracks(last.path, WorkedOn[1])

\* the update that stored the snapshot went on to the batch eviction, which
\* took the path's snapshot with it
EvictedAtOnce ==
    /\ last.path \notin DOMAIN PREV_STATE
    /\ Cardinality(DOMAIN PREV_STATE) = PREV_CONTENT_LIMIT

C37_NoEchoLoop ==
    /\ \A i \in 1..Len(bridge.sent) :
          /\ ~bridge.sent[i].echo
          /\ bridge.sent[i].op.actor_id = LocalActor
    /\ \A i, j \in 1..Len(bridge.sent) :
          bridge.sent[i].op.id = bridge.sent[j].op.id => i = j
    /\ \A i, j \in 1..Len(bridge.applied) :
          bridge.applied[i].id = bridge.applied[j].id => i = j

\* the remote's operation was applied once although it arrived twice, the
\* local one was sent once although it was published twice and echoed
C37_Witness ==
    /\ Len(bridge.applied) = 1
    /\ Len(bridge.sent) = 1
    /\ bridge.sent[1].op.id \in bridge.arrived
    /\ bridge.published = 2
    /\ bridge.messages = 3
    /\ bridge.rx = <<>> /\ bridge.ws_rx = <<>>
    /\ bridge.forward = <<>> /\ bridge.recv = <<>>
    /\ bridge.forwarding

\* the versions accepted for a uri, in the order they were accepted
AcceptedFor(uri) ==
    LET IsFor(e) == e[1] = uri
    IN  SelectSeq(lsp.accepted, IsFor)

\* C38 (LSP version gate): operations are emitted for an event only when its
\* version was accepted, and a version is accepted only when it is strictly
\* greater than every version accepted before for the same uri; an event
\* whose version is less than or equal to the recorded one is not accepted
\* and leaves the recorded version unchanged.
C38_VersionGate ==
    /\ lsp.emitted \subseteq {lsp.accepted[i] : i \in 1..Len(lsp.accepted)}
    /\ \A uri \in Uris :
          LET versions == AcceptedFor(uri)
          IN  /\ \A i \in 1..(Len(versions) - 1) : versions[i][2] < versions[i + 1][2]
              /\ Get(lsp.document_versions, uri)
                    = IF versions = <<>> THEN <<>>
                      ELSE <<versions[Len(versions)][2]>>
    /\ (lsp.last.recorded # <<>> /\ lsp.last.version <= lsp.last.recorded[1])
          => /\ ~lsp.last.accepted
             /\ Get(lsp.document_versions, lsp.last.uri) = lsp.last.recorded
    /\ (lsp.calls > 0 /\ (lsp.last.recorded = <<>> \/ lsp.last.version > lsp.last.recorded[1]))
          => lsp.last.accepted

\* version 2 of a document was accepted and emitted, then version 2 again and
\* version 1 were turned away
C38_Witness ==
    /\ lsp.accepted = <<<<"u", 2>>>>
    /\ <<"u", 2>> \in lsp.emitted
    /\ lsp.calls = 3
    /\ ~lsp.last.accepted
    /\ lsp.last.version = 1
====
